---- MODULE Spec2Model ----
(***************************************************************************)
(* CineMatch: the movie catalog (movies table), the TMDB sync routes, the  *)
(* getMovies filter/query composer, the movie routes and the per-user      *)
(* watchlist, favorites, ratings and preferences routes, as state machines *)
(* over the PostgreSQL tables declared in shared/schema.ts; and the        *)
(* client's Home page, movie card and movie detail page with their queries *)
(* and mutations against those routes.                                     *)
(*                                                                         *)
(* Units: ratings are kept in tenths (7.0 is 70) and the external          *)
(* vote_average in hundredths (6.96 is 696), so that decimal(3,1) rounding *)
(* is an operation of the model. A nullable column holds {} (NULL) or {v}. *)
(***************************************************************************)
EXTENDS Integers, Sequences, FiniteSets, TLC

\* ------------------------------------------------------------------ bounds
MaxTmdb == 3     \* external (TMDB) ids are 1..MaxTmdb
ListLen == 2     \* items on one page of an external listing
MaxPage == 2     \* filter pages are -1..MaxPage (or absent)
MaxLimit == 2    \* filter limits are -1..MaxLimit (or absent)
MaxInserts == 2  \* serial values the user tables hand out in one run
MaxRev == 1      \* times the external API's data changes in one run

\* ------------------------------------------------------- program constants
DefaultPage == 1
DefaultLimit == 20
Under90 == 90
UpTo120 == 120
StatusOk == 200
StatusError == 500
StatusNotFound == 404
StatusBadRequest == 400
DefaultTrendingLimit == 10
RatingDigits == 2   \* decimal(2,1): two digits, one of them after the point

VARIABLES
  movies,      \* the movies table: a set of rows
  movieSeq,    \* the serial sequence behind movies.id (last value handed out)
  sync,        \* per sync request in flight: position in the route handler
  okCats,      \* history: the categories a sync call has answered 200 for
  gm,          \* the getMovies call in flight: its two queries and result
  watchlist,   \* the watchlist table
  favorites,   \* the favorites table
  ratings,     \* the ratings table
  userPreferences,  \* the user_preferences table
  userSeq,     \* the serial sequences behind the ids of the four user tables
  http,        \* the last request to a route, with its response
  tmdbRev,     \* the revision of the data the external API reports
  home,        \* the Home page component of the client
  queries      \* the client's query cache and its request in flight

userVars == <<watchlist, favorites, ratings, userPreferences, userSeq, http>>
catalogVars == <<movies, movieSeq, tmdbRev, sync, okCats, gm>>
clientVars == <<home, queries>>
vars == <<movies, movieSeq, tmdbRev, sync, okCats, gm, userVars, clientVars>>

None == {}
Some(v) == {v}
Val(o) == CHOOSE v \in o : TRUE

\* ------------------------------------------------------------ external API
TmdbIds == 1..MaxTmdb
Procs == {"s1", "s2"}
Categories == {"popular", "trending", "bollywood"}

\* What GET /movie/{id} of the external API reports for an item.
TmdbDetails(t) ==
  [ id |-> t,
    vote_average |-> CASE t = 1 -> 650 [] t = 2 -> 700 [] t = 3 -> 696
                       [] t = 4 -> 850 [] OTHER -> 0,
    runtime |-> CASE t = 1 -> Some(85) [] t = 2 -> Some(120) [] t = 3 -> None
                  [] t = 4 -> Some(150) [] OTHER -> Some(90),
    genres |-> CASE t = 1 -> {28} [] t = 2 -> {28, 35} [] t = 3 -> {}
                 [] t = 4 -> {35} [] OTHER -> {18},
    original_language |-> IF t % 2 = 1 THEN "hi" ELSE "en",
    release_year |-> CASE t = 1 -> Some(1999) [] t = 2 -> Some(2010)
                       [] t = 3 -> None [] OTHER -> Some(2020),
    title |-> (7 * t) % 5,
    popularity |-> 10 * t ]

\* The same at a later revision of the external data: popularity and the vote
\* average move with time.
TmdbDetailsAt(t, rev) ==
  [TmdbDetails(t) EXCEPT !.popularity = @ + rev, !.vote_average = @ + 10 * rev]

Min(a, b) == IF a < b THEN a ELSE b

\* GET /movie/popular?page=n of the external API: the n-th ListLen items of
\* the external ids, most popular first; no item past the last page.
PopularPage(page) ==
  LET first == (page - 1) * ListLen
      n == IF first >= MaxTmdb THEN 0 ELSE Min(ListLen, MaxTmdb - first)
  IN [i \in 1..n |-> MaxTmdb + 1 - (first + i)]

\* The pages of the popular listing that hold the modelled items.
PopularPages == (MaxTmdb + ListLen - 1) \div ListLen

\* Page 1 of each external listing, as a sequence of external ids.
PopularListing == PopularPage(DefaultPage)
TrendingListing == [i \in 1..ListLen |-> i + 1]
BollywoodListing ==
  LET top == IF MaxTmdb % 2 = 1 THEN MaxTmdb ELSE MaxTmdb - 1
      n == Min(ListLen, (top + 1) \div 2)
  IN [i \in 1..n |-> top - 2 * (i - 1)]

Listing(cat) ==
  CASE cat = "popular" -> PopularListing
    [] cat = "trending" -> TrendingListing
    [] OTHER -> BollywoodListing

\* total_results of the listing: the external catalog's size, not the page's.
TotalResults(cat) == Len(Listing(cat)) + MaxTmdb

Range(s) == {s[i] : i \in DOMAIN s}

\* ------------------------------------------------------------ movies table
\* decimal(3,1): the value is rounded to one decimal on insert.
RoundToTenths(h) == (h + 5) \div 10

\* The InsertMovie the sync routes build from the item's details.
InsertMovieOf(d) ==
  [ tmdbId |-> d.id,
    voteAverage |-> RoundToTenths(d.vote_average),
    runtime |-> d.runtime,
    genres |-> d.genres,
    originalLanguage |-> d.original_language,
    releaseYear |-> d.release_year,
    title |-> d.title,
    popularity |-> d.popularity ]

MovieRow(id, ins) ==
  [ id |-> id,
    tmdbId |-> ins.tmdbId,
    voteAverage |-> ins.voteAverage,
    runtime |-> ins.runtime,
    genres |-> ins.genres,
    originalLanguage |-> ins.originalLanguage,
    releaseYear |-> ins.releaseYear,
    title |-> ins.title,
    popularity |-> ins.popularity ]

\* Mutant: the lookup compares the local id with the external id.
getMovieByLocalId(tbl, tmdbId) == {m \in tbl : m.id = tmdbId}

\* Mutant: the lookup finds nothing.
getNoMovie(tbl, tmdbId) == {}

\* getMovieByTmdbId: the row with that external id, {} when there is none.
getMovieByTmdbId(tbl, tmdbId) == {m \in tbl : m.tmdbId = tmdbId}

\* Mutant: tmdb_id is not declared unique.
TmdbIdUnconstrained(tbl, tmdbId) == TRUE

\* The unique constraint on movies.tmdb_id: may a row with this id go in?
TmdbIdFree(tbl, tmdbId) == \A m \in tbl : m.tmdbId # tmdbId

\* Mutant: the insert handles the conflict on tmdb_id and returns the row that
\* is already there.
createOrGetMovie(tbl, id, ins) ==
  IF TmdbIdFree(tbl, ins.tmdbId) THEN {MovieRow(id, ins)}
  ELSE getMovieByTmdbId(tbl, ins.tmdbId)

\* Mutant: the insert stores nothing.
createNothing(tbl, id, ins) == {}

\* createMovie: the inserted row, or {} when the database rejects the insert
\* (the unique constraint on tmdb_id), which makes the call throw.
createMovie(tbl, id, ins) ==
  IF TmdbIdFree(tbl, ins.tmdbId) THEN {MovieRow(id, ins)} ELSE {}

\* ------------------------------------------------------------- sync routes
IdleSync ==
  [ pc |-> "idle", cat |-> "popular", i |-> 0, synced |-> <<>>,
    presentAtStart |-> FALSE, afterOk |-> FALSE, inserted |-> 0, fetched |-> 0,
    status |-> 0, total |-> 0, failedAt |-> "", detailsRev |-> 0,
    page |-> DefaultPage ]

\* Mutant: the call walks every page of the popular listing.
AllPages(c) ==
  IF c.cat = "popular" THEN [i \in 1..MaxTmdb |-> MaxTmdb + 1 - i]
  ELSE Listing(c.cat)

\* tmdbMovies.results: the one page the call fetched (the page of the request
\* body for the popular listing, page 1 of the others).
Results(c) ==
  IF c.cat = "popular" THEN PopularPage(c.page) ELSE Listing(c.cat)

\* Mutant: a failure skips the item and the loop goes on with the next one.
FailedItemSkipped(c, at) ==
  IF c.i = 0 \/ c.i = Len(Results(c))
    THEN [c EXCEPT !.pc = "done", !.status = StatusError, !.failedAt = at]
    ELSE [c EXCEPT !.i = c.i + 1, !.pc = "check", !.failedAt = at]

\* catch (error): res.status(500).json({ message: "Failed to sync ..." })
Failed(c, at) == [c EXCEPT !.pc = "done", !.status = StatusError, !.failedAt = at]

\* The body of the response: res.json({ syncedMovies, total }) or the message.
SyncResponse(c) ==
  IF c.status = StatusOk THEN [syncedMovies |-> c.synced, total |-> c.total]
  ELSE [message |-> "generic"]

\* Mutant: the response reports the number of rows it returns as the total.
PushedWithRowCount(c, row) ==
  LET synced == Append(c.synced, row)
  IN IF c.i = Len(Results(c))
       THEN [c EXCEPT !.synced = synced, !.pc = "done", !.status = StatusOk,
                      !.total = Len(synced)]
       ELSE [c EXCEPT !.synced = synced, !.i = c.i + 1, !.pc = "check"]

\* One item is settled (found or inserted): push it and go to the next item, or
\* answer { syncedMovies, total } once the listing is exhausted.
Pushed(c, row) ==
  LET synced == Append(c.synced, row)
  IN IF c.i = Len(Results(c))
       THEN [c EXCEPT !.synced = synced, !.pc = "done", !.status = StatusOk,
                      !.total = TotalResults(c.cat)]
       ELSE [c EXCEPT !.synced = synced, !.i = c.i + 1, !.pc = "check"]

\* POST /api/tmdb/sync/<cat>: the listing fetch (it may fail).
SyncListing(p, cat, ok) ==
  /\ sync[p].pc = "idle"
  /\ sync' = [sync EXCEPT ![p] =
       IF ok
         THEN [IdleSync EXCEPT !.pc = "check", !.cat = cat, !.i = 1,
                 !.presentAtStart =
                    \A t \in Range(Listing(cat)) : \E m \in movies : m.tmdbId = t,
                 !.afterOk = cat \in okCats]
         ELSE Failed([IdleSync EXCEPT !.cat = cat], "listing")]
  /\ UNCHANGED <<movies, movieSeq, okCats, gm, userVars, clientVars, tmdbRev>>

\* POST /api/tmdb/sync/popular with { page } in the body: the listing fetch
\* asks the external API for that page.
SyncPopularPage(p, page, ok) ==
  /\ sync[p].pc = "idle"
  /\ sync' = [sync EXCEPT ![p] =
       IF ok
         THEN [IdleSync EXCEPT !.pc = "check", !.cat = "popular", !.i = 1,
                 !.page = page,
                 !.presentAtStart =
                    \A t \in Range(PopularPage(page)) :
                       \E m \in movies : m.tmdbId = t,
                 !.afterOk = FALSE]
         ELSE Failed([IdleSync EXCEPT !.cat = "popular", !.page = page], "listing")]
  /\ UNCHANGED <<movies, movieSeq, okCats, gm, userVars, clientVars, tmdbRev>>

\* let movie = await storage.getMovieByTmdbId(tmdbMovie.id)
SyncCheck(p) ==
  LET c == sync[p]
      found == getMovieByTmdbId(movies, Results(c)[c.i])
      next == IF found # {} THEN Pushed(c, Val(found))
                            ELSE [c EXCEPT !.pc = "details"]
  IN /\ c.pc = "check"
     /\ sync' = [sync EXCEPT ![p] = next]
     /\ okCats' = IF next.pc = "done" THEN okCats \cup {c.cat} ELSE okCats
     /\ UNCHANGED <<movies, movieSeq, gm, userVars, clientVars, tmdbRev>>

\* const movieDetails = await tmdbService.getMovieDetails(tmdbMovie.id)
SyncDetails(p, ok) ==
  LET c == sync[p]
  IN /\ c.pc = "details"
     /\ sync' = [sync EXCEPT ![p] =
          IF ok THEN [c EXCEPT !.pc = "create", !.fetched = c.fetched + 1,
                               !.detailsRev = tmdbRev]
                ELSE Failed([c EXCEPT !.fetched = c.fetched + 1], "details")]
     /\ UNCHANGED <<movies, movieSeq, okCats, gm, userVars, clientVars, tmdbRev>>

\* movie = await storage.createMovie({...}): the insert takes the next serial
\* value; the unique constraint on tmdb_id rejects a second row for the id.
SyncCreate(p) ==
  LET c == sync[p]
      ins == InsertMovieOf(TmdbDetailsAt(Results(c)[c.i], c.detailsRev))
      created == createMovie(movies, movieSeq + 1, ins)
      next == IF created # {}
                THEN Pushed([c EXCEPT !.inserted = c.inserted + 1], Val(created))
                ELSE Failed(c, "insert")
  IN /\ c.pc = "create"
     /\ movieSeq' = movieSeq + 1
     /\ movies' = movies \cup created
     /\ sync' = [sync EXCEPT ![p] = next]
     /\ okCats' = IF next.status = StatusOk THEN okCats \cup {c.cat} ELSE okCats
     /\ UNCHANGED <<gm, userVars, clientVars, tmdbRev>>

\* The external source publishes new data for its items.
TmdbChange ==
  /\ tmdbRev < MaxRev
  /\ tmdbRev' = tmdbRev + 1
  /\ UNCHANGED <<movies, movieSeq, sync, okCats, gm, userVars, clientVars>>

\* The response has been sent; the client may issue its next sync request.
SyncReturn(p) ==
  /\ sync[p].pc = "done"
  /\ sync' = [sync EXCEPT ![p] = IdleSync]
  /\ UNCHANGED <<movies, movieSeq, okCats, gm, userVars, clientVars, tmdbRev>>

\* ------------------------------------------------- movieFilterSchema, getMovies
\* A filter holds, for each field of the schema, {} (absent) or {value}.
NoFields ==
  [ genres |-> None, regions |-> None, releaseYearFrom |-> None,
    releaseYearTo |-> None, ratingMin |-> None, ratingMax |-> None,
    runtime |-> None, ageRating |-> None, sortBy |-> None, sortOrder |-> None,
    page |-> None, limit |-> None ]
Has(f, k) == f[k] # None
Get(f, k) == Val(f[k])

\* The values the schema's enums hold.
SchemaSortKeys == {"popularity", "rating", "release_date", "title"}
SchemaSortOrders == {"asc", "desc"}
SchemaRuntimes == {"any", "under90", "90to120", "over120"}

\* movieFilterSchema.parse throws unless each enum field that is present holds
\* a value of its enum.
SchemaAccepts(q) ==
  /\ q.sortBy \subseteq SchemaSortKeys
  /\ q.sortOrder \subseteq SchemaSortOrders
  /\ q.runtime \subseteq SchemaRuntimes

\* movieFilterSchema.parse: every field optional, page and limit defaulted.
ParseFilter(q) ==
  [q EXCEPT !.page = IF @ = None THEN Some(DefaultPage) ELSE @,
            !.limit = IF @ = None THEN Some(DefaultLimit) ELSE @]

\* Mutant: a field counts as soon as it is present, 0 included.
Present(f, k) == Has(f, k)

\* if (filters.x): a number that is present and not 0.
Truthy(f, k) == Has(f, k) /\ Get(f, k) # 0

\* x || d
OrDefault(f, k, d) == IF Truthy(f, k) THEN Get(f, k) ELSE d

\* const conditions = []: the conditions getMovies pushes, one per present
\* field it looks at. It never reads filters.regions or filters.ageRating.
Conditions(f) ==
     (IF Has(f, "genres") /\ Get(f, "genres") # {}
        THEN {[kind |-> "genres", ids |-> Get(f, "genres")]} ELSE {})
  \cup (IF Truthy(f, "releaseYearFrom")
        THEN {[kind |-> "yearFrom", bound |-> Get(f, "releaseYearFrom")]} ELSE {})
  \cup (IF Truthy(f, "releaseYearTo")
        THEN {[kind |-> "yearTo", bound |-> Get(f, "releaseYearTo")]} ELSE {})
  \cup (IF Truthy(f, "ratingMin")
        THEN {[kind |-> "ratingMin", bound |-> Get(f, "ratingMin")]} ELSE {})
  \cup (IF Truthy(f, "ratingMax")
        THEN {[kind |-> "ratingMax", bound |-> Get(f, "ratingMax")]} ELSE {})
  \cup (IF Has(f, "runtime") /\ Get(f, "runtime") # "any"
        THEN {[kind |-> Get(f, "runtime")]} ELSE {})

\* JSON_SEARCH(...) and YEAR(...) are MySQL functions; the tables are PostgreSQL
\* tables (pgTable), where a statement that calls them is rejected ("function
\* does not exist") whatever rows the table holds.
UsesUndefinedFunction(c) == c.kind \in {"genres", "yearFrom", "yearTo"}

\* Mutant: the middle bucket is half-open (runtime < 120).
SatisfiesHalfOpen(m, c) ==
  CASE c.kind = "ratingMin" -> m.voteAverage >= c.bound
    [] c.kind = "ratingMax" -> m.voteAverage <= c.bound
    [] c.kind = "under90" -> m.runtime # None /\ Val(m.runtime) < Under90
    [] c.kind = "90to120" ->
         m.runtime # None /\ Val(m.runtime) >= Under90 /\ Val(m.runtime) < UpTo120
    [] c.kind = "over120" -> m.runtime # None /\ Val(m.runtime) > UpTo120
    [] OTHER -> FALSE

\* One condition on one row, for the conditions PostgreSQL evaluates. A
\* comparison with NULL is not true.
Satisfies(m, c) ==
  CASE c.kind = "ratingMin" -> m.voteAverage >= c.bound
    [] c.kind = "ratingMax" -> m.voteAverage <= c.bound
    [] c.kind = "under90" -> m.runtime # None /\ Val(m.runtime) < Under90
    [] c.kind = "90to120" ->
         m.runtime # None /\ Val(m.runtime) >= Under90 /\ Val(m.runtime) <= UpTo120
    [] c.kind = "over120" -> m.runtime # None /\ Val(m.runtime) > UpTo120
    [] OTHER -> FALSE

\* query.where(and(...conditions)): the rows the WHERE clause keeps.
Matching(tbl, f) == {m \in tbl : \A c \in Conditions(f) : Satisfies(m, c)}

WhereFails(f) == \E c \in Conditions(f) : UsesUndefinedFunction(c)

\* The column of the ORDER BY (release_date is a string: '' sorts first).
SortKey(m, sortBy) ==
  CASE sortBy = "rating" -> m.voteAverage
    [] sortBy = "release_date" ->
         IF m.releaseYear = None THEN 0 ELSE Val(m.releaseYear)
    [] sortBy = "title" -> m.title
    [] OTHER -> m.popularity

SortBy(f) == IF Has(f, "sortBy") THEN Get(f, "sortBy") ELSE "popularity"
SortOrder(f) == IF Has(f, "sortOrder") THEN Get(f, "sortOrder") ELSE "desc"

InOrder(a, b, sortOrder) == IF sortOrder = "desc" THEN a >= b ELSE a <= b

\* Every sequence ORDER BY may produce: rows with equal keys come in any order.
RECURSIVE Orderings(_, _, _)
Orderings(rows, sortBy, sortOrder) ==
  IF rows = {} THEN {<<>>}
  ELSE LET first == { m \in rows : \A x \in rows :
                        InOrder(SortKey(m, sortBy), SortKey(x, sortBy), sortOrder) }
       IN UNION { { <<m>> \o s : s \in Orderings(rows \ {m}, sortBy, sortOrder) } :
                  m \in first }

Page(f) == OrDefault(f, "page", DefaultPage)
Limit(f) == OrDefault(f, "limit", DefaultLimit)

\* Mutant: the offset is page * limit.
OffsetPageTimesLimit(f) == Page(f) * Limit(f)

\* const offset = (page - 1) * limit
Offset(f) == (Page(f) - 1) * Limit(f)

\* PostgreSQL rejects a negative LIMIT or OFFSET.
PageQueryFails(f) == WhereFails(f) \/ Limit(f) < 0 \/ Offset(f) < 0

\* .limit(limit).offset(offset) of one ordering.
Paginate(s, f) ==
  SubSeq(s, Offset(f) + 1, Min(Offset(f) + Limit(f), Len(s)))

\* The page query's possible results on a table.
PageQuery(tbl, f) ==
  {Paginate(s, f) : s \in Orderings(Matching(tbl, f), SortBy(f), SortOrder(f))}

\* Mutant: the count query is built without the WHERE clause.
CountAllRows(tbl, f) == Cardinality(tbl)

\* The count query's result on a table.
CountQuery(tbl, f) == Cardinality(Matching(tbl, f))

IdleGm ==
  [ pc |-> "idle", filters |-> NoFields, pageDone |-> FALSE, countDone |-> FALSE,
    failed |-> FALSE, movies |-> <<>>, total |-> 0,
    pageSnap |-> {}, countSnap |-> {} ]

\* Promise.all settles once both queries have: resolved, or rejected.
Settle(g) == IF g.pageDone /\ g.countDone THEN [g EXCEPT !.pc = "done"] ELSE g

\* storage.getMovies(filters) is called: both queries are issued.
GmCall(inputs) ==
  /\ gm.pc = "idle"
  /\ \E q \in inputs :
       gm' = [IdleGm EXCEPT !.pc = "running", !.filters = ParseFilter(q)]
  /\ UNCHANGED <<movies, movieSeq, sync, okCats, userVars, clientVars, tmdbRev>>

\* The database runs the page query.
GmPageQuery ==
  /\ gm.pc = "running" /\ ~gm.pageDone
  /\ IF PageQueryFails(gm.filters)
       THEN gm' = Settle([gm EXCEPT !.pageDone = TRUE, !.failed = TRUE,
                                    !.pageSnap = movies])
       ELSE \E rows \in PageQuery(movies, gm.filters) :
              gm' = Settle([gm EXCEPT !.pageDone = TRUE, !.movies = rows,
                                      !.pageSnap = movies])
  /\ UNCHANGED <<movies, movieSeq, sync, okCats, userVars, clientVars, tmdbRev>>

\* The database runs the count query.
GmCountQuery ==
  /\ gm.pc = "running" /\ ~gm.countDone
  /\ gm' = Settle(
       IF WhereFails(gm.filters)
         THEN [gm EXCEPT !.countDone = TRUE, !.failed = TRUE, !.countSnap = movies]
         ELSE [gm EXCEPT !.countDone = TRUE, !.countSnap = movies,
                         !.total = CountQuery(movies, gm.filters)])
  /\ UNCHANGED <<movies, movieSeq, sync, okCats, userVars, clientVars, tmdbRev>>

\* The caller has the result (or the rejection); the next call may start.
GmReturn ==
  /\ gm.pc = "done"
  /\ gm' = IdleGm
  /\ UNCHANGED <<movies, movieSeq, sync, okCats, userVars, clientVars, tmdbRev>>

\* getMovies resolved with { movies, total }.
GmResolved == gm.pc = "done" /\ ~gm.failed

\* ------------------------------------------- user tables (shared/schema.ts)
Users == {"u1", "u2"}

\* The column sets a table declares unique: the serial primary key, tmdb_id of
\* movies and user_id of user_preferences. No table declares (user_id, movie_id).
UniqueKeys(table) ==
  CASE table = "movies" -> {{"id"}, {"tmdbId"}}
    [] table = "user_preferences" -> {{"id"}, {"userId"}}
    [] OTHER -> {{"id"}}

\* The rows a new row collides with on some unique constraint of its table.
Conflicts(tbl, table, row) ==
  {r \in tbl : \E key \in UniqueKeys(table) : \A col \in key : r[col] = row[col]}

\* INSERT ... ON CONFLICT DO NOTHING
InsertOrNothing(tbl, table, row) ==
  IF Conflicts(tbl, table, row) = {} THEN tbl \cup {row} ELSE tbl

\* INSERT ... ON CONFLICT (target) DO UPDATE is rejected by PostgreSQL unless a
\* unique constraint matches the target columns.
ConflictTargetOk(table, target) == target \in UniqueKeys(table)

PairRow(id, userId, movieId) == [id |-> id, userId |-> userId, movieId |-> movieId]

addToWatchlist(tbl, id, userId, movieId) ==
  InsertOrNothing(tbl, "watchlist", PairRow(id, userId, movieId))

\* Mutant: the delete forgets the movie id and removes all of the user's rows.
removeAllOfUser(tbl, userId, movieId) == {r \in tbl : r.userId # userId}

removeFromWatchlist(tbl, userId, movieId) ==
  {r \in tbl : ~(r.userId = userId /\ r.movieId = movieId)}

\* Mutant: the status query forgets the user and looks for the movie only.
isInAnyWatchlist(tbl, userId, movieId) == \E r \in tbl : r.movieId = movieId

isInWatchlist(tbl, userId, movieId) ==
  \E r \in tbl : r.userId = userId /\ r.movieId = movieId

\* Rows newest first (created_at descending: the later insert has the larger id).
RECURSIVE NewestFirst(_)
NewestFirst(rows) ==
  IF rows = {} THEN <<>>
  ELSE LET r == CHOOSE x \in rows : \A y \in rows : x.id >= y.id
       IN <<r>> \o NewestFirst(rows \ {r})

MovieOf(catalog, movieId) == CHOOSE m \in catalog : m.id = movieId

\* The page query joins the user's rows with movies (a row whose movie id has no
\* movie drops out); the count query counts the user's rows, joined or not.
getUserWatchlist(tbl, catalog, userId, page, limit) ==
  LET own == {r \in tbl : r.userId = userId}
      joined == {r \in own : \E m \in catalog : m.id = r.movieId}
      ordered == NewestFirst(joined)
      offset == (page - 1) * limit
      rows == SubSeq(ordered, offset + 1, Min(offset + limit, Len(ordered)))
  IN [ movies |-> [i \in DOMAIN rows |-> MovieOf(catalog, rows[i].movieId)],
       total |-> Cardinality(own) ]

addToFavorites(tbl, id, userId, movieId) ==
  InsertOrNothing(tbl, "favorites", PairRow(id, userId, movieId))

removeFromFavorites(tbl, userId, movieId) ==
  {r \in tbl : ~(r.userId = userId /\ r.movieId = movieId)}

isInFavorites(tbl, userId, movieId) ==
  \E r \in tbl : r.userId = userId /\ r.movieId = movieId

getUserFavorites(tbl, catalog, userId, page, limit) ==
  getUserWatchlist(tbl, catalog, userId, page, limit)

\* decimal(2,1) holds at most 9.9: a larger value overflows the column.
RatingFits(tenths) == tenths < 10 ^ RatingDigits

\* rateMovie: does the upsert statement run? Its conflict target is
\* (user_id, movie_id).
rateMovieRuns(rating) ==
  ConflictTargetOk("ratings", {"userId", "movieId"}) /\ RatingFits(rating)

\* rateMovie when the statement runs: overwrite the pair's row or insert one.
rateMovie(tbl, id, userId, movieId, rating) ==
  LET row == [id |-> id, userId |-> userId, movieId |-> movieId, rating |-> rating]
      hit == {r \in tbl : r.userId = userId /\ r.movieId = movieId}
  IN IF hit = {} THEN tbl \cup {row}
     ELSE {IF r \in hit THEN [r EXCEPT !.rating = rating] ELSE r : r \in tbl}

getUserRating(tbl, userId, movieId) ==
  {r \in tbl : r.userId = userId /\ r.movieId = movieId}

getUserPreferences(tbl, userId) == {r \in tbl : r.userId = userId}

\* updateUserPreferences: insert the user's row, or on the user_id conflict set
\* the fields the request gave.
updateUserPreferences(tbl, id, userId, preferences) ==
  LET hit == {r \in tbl : r.userId = userId}
      row == [id |-> id, userId |-> userId, ageRating |-> preferences.ageRating]
  IN IF ~ConflictTargetOk("user_preferences", {"userId"}) THEN tbl
     ELSE IF hit = {} THEN tbl \cup {row}
     ELSE { IF r \in hit /\ preferences.ageRating # None
              THEN [r EXCEPT !.ageRating = preferences.ageRating] ELSE r :
            r \in tbl }

\* ------------------------------------------------------------- user routes
\* Movie ids a request names: one that has a movie, one that has none.
RequestMovieIds == {1, ListLen + 1}

\* Mutant: the body is spread last, so its userId wins over the session's.
BodyUserIdWins(sessionUser, bodyUser) ==
  IF bodyUser = None THEN sessionUser ELSE Val(bodyUser)

\* const userId = req.user.claims.sub, and parse({ ...req.body, userId }): the
\* session's user id replaces whatever userId the body carries.
ScopedUserId(sessionUser, bodyUser) == sessionUser

\* The rating of a request body: its value, and whether it came as a string.
NoRating == [tenths |-> 0, asString |-> FALSE]

\* failure: what went wrong inside the handler, "" when nothing did. message:
\* the message of an error response ("generic" is the handler's "Failed to ...").
\* tmdbCalls: the requests the handler made to the external API.
NoHttp ==
  [ route |-> "", user |-> "", bodyUser |-> None, movieId |-> 0, repeat |-> FALSE,
    status |-> 0, body |-> None, rating |-> NoRating, failure |-> "",
    message |-> "", tmdbCalls |-> 0 ]

\* The request is the same as the one before it (route, user and movie).
Repeats(route, u, m) == http.route = route /\ http.user = u /\ http.movieId = m

Answer(route, u, bodyUser, m, status, body) ==
  [ route |-> route, user |-> u, bodyUser |-> bodyUser, movieId |-> m,
    repeat |-> Repeats(route, u, m), status |-> status, body |-> body,
    rating |-> NoRating, failure |-> "",
    message |-> IF status = StatusError THEN "generic" ELSE "", tmdbCalls |-> 0 ]

\* catch (error): res.status(500).json({ message: "Failed to ..." })
Caught(route, u, bodyUser, m, failure) ==
  [Answer(route, u, bodyUser, m, StatusError, None) EXCEPT !.failure = failure]

InsertsLeft == userSeq.watchlist + userSeq.favorites + userSeq.prefs < MaxInserts

\* POST /api/watchlist. A body without a numeric movieId fails the schema.
PostWatchlist(u, bodyUser, movieId) ==
  LET userId == ScopedUserId(u, bodyUser)
      id == userSeq.watchlist + 1
      after == addToWatchlist(watchlist, id, userId, Val(movieId))
  IN /\ InsertsLeft
     /\ IF movieId = None
          THEN /\ http' = Caught("POST /api/watchlist", u, bodyUser, 0, "validation")
               /\ UNCHANGED <<watchlist, userSeq>>
          ELSE /\ watchlist' = after
               /\ userSeq' = [userSeq EXCEPT !.watchlist = id]
               /\ http' = Answer("POST /api/watchlist", u, bodyUser, Val(movieId),
                                 StatusOk, after \ watchlist)
     /\ UNCHANGED <<catalogVars, clientVars, favorites, ratings,
                    userPreferences>>

\* DELETE /api/watchlist/:movieId
DeleteWatchlist(u, movieId) ==
  /\ watchlist' = removeFromWatchlist(watchlist, u, movieId)
  /\ http' = Answer("DELETE /api/watchlist/:movieId", u, None, movieId, StatusOk, None)
  /\ UNCHANGED <<catalogVars, clientVars, favorites, ratings,
                 userPreferences, userSeq>>

\* GET /api/watchlist/:movieId/status
GetWatchlistStatus(u, movieId) ==
  /\ http' = Answer("GET /api/watchlist/:movieId/status", u, None, movieId, StatusOk,
                    isInWatchlist(watchlist, u, movieId))
  /\ UNCHANGED <<catalogVars, clientVars, watchlist, favorites, ratings,
                 userPreferences, userSeq>>

\* GET /api/watchlist?page=&limit=
GetWatchlist(u, page, limit) ==
  /\ http' = Answer("GET /api/watchlist", u, None, 0, StatusOk,
                    getUserWatchlist(watchlist, movies, u, page, limit))
  /\ UNCHANGED <<catalogVars, clientVars, watchlist, favorites, ratings,
                 userPreferences, userSeq>>

\* POST /api/favorites
PostFavorites(u, bodyUser, movieId) ==
  LET userId == ScopedUserId(u, bodyUser)
      id == userSeq.favorites + 1
      after == addToFavorites(favorites, id, userId, Val(movieId))
  IN /\ InsertsLeft
     /\ IF movieId = None
          THEN /\ http' = Caught("POST /api/favorites", u, bodyUser, 0, "validation")
               /\ UNCHANGED <<favorites, userSeq>>
          ELSE /\ favorites' = after
               /\ userSeq' = [userSeq EXCEPT !.favorites = id]
               /\ http' = Answer("POST /api/favorites", u, bodyUser, Val(movieId),
                                 StatusOk, after \ favorites)
     /\ UNCHANGED <<catalogVars, clientVars, watchlist, ratings,
                    userPreferences>>

\* DELETE /api/favorites/:movieId
DeleteFavorites(u, movieId) ==
  /\ favorites' = removeFromFavorites(favorites, u, movieId)
  /\ http' = Answer("DELETE /api/favorites/:movieId", u, None, movieId, StatusOk, None)
  /\ UNCHANGED <<catalogVars, clientVars, watchlist, ratings,
                 userPreferences, userSeq>>

\* GET /api/favorites/:movieId/status
GetFavoritesStatus(u, movieId) ==
  /\ http' = Answer("GET /api/favorites/:movieId/status", u, None, movieId, StatusOk,
                    isInFavorites(favorites, u, movieId))
  /\ UNCHANGED <<catalogVars, clientVars, watchlist, favorites, ratings,
                 userPreferences, userSeq>>

\* GET /api/favorites?page=&limit=
GetFavorites(u, page, limit) ==
  /\ http' = Answer("GET /api/favorites", u, None, 0, StatusOk,
                    getUserFavorites(favorites, movies, u, page, limit))
  /\ UNCHANGED <<catalogVars, clientVars, watchlist, favorites, ratings,
                 userPreferences, userSeq>>

\* POST /api/ratings. insertRatingSchema takes the decimal column as a string:
\* a body whose rating is a JSON number fails the schema. A body that passes
\* reaches rateMovie, whose statement the database may reject.
PostRating(u, bodyUser, movieId, rating) ==
  LET userId == ScopedUserId(u, bodyUser)
      id == userSeq.ratings + 1
      runs == rating.asString /\ rateMovieRuns(rating.tenths)
      after == rateMovie(ratings, id, userId, movieId, rating.tenths)
  IN /\ ratings' = IF runs THEN after ELSE ratings
     /\ userSeq' = IF runs THEN [userSeq EXCEPT !.ratings = id] ELSE userSeq
     /\ http' = [ IF runs
                    THEN Answer("POST /api/ratings", u, bodyUser, movieId, StatusOk,
                                getUserRating(after, userId, movieId))
                    ELSE Caught("POST /api/ratings", u, bodyUser, movieId,
                                IF rating.asString THEN "database" ELSE "validation")
                  EXCEPT !.rating = rating ]
     /\ UNCHANGED <<catalogVars, clientVars, watchlist, favorites,
                    userPreferences>>

\* GET /api/ratings/:movieId
GetRating(u, movieId) ==
  /\ http' = Answer("GET /api/ratings/:movieId", u, None, movieId, StatusOk,
                    getUserRating(ratings, u, movieId))
  /\ UNCHANGED <<catalogVars, clientVars, watchlist, favorites, ratings,
                 userPreferences, userSeq>>

\* POST /api/preferences
PostPreferences(u, bodyUser, ageRating) ==
  LET userId == ScopedUserId(u, bodyUser)
      id == userSeq.prefs + 1
      after == updateUserPreferences(userPreferences, id, userId,
                                     [userId |-> userId, ageRating |-> ageRating])
  IN /\ InsertsLeft
     /\ userPreferences' = after
     /\ userSeq' = [userSeq EXCEPT !.prefs = id]
     /\ http' = Answer("POST /api/preferences", u, bodyUser, 0, StatusOk,
                       getUserPreferences(after, userId))
     /\ UNCHANGED <<catalogVars, clientVars, watchlist, favorites, ratings>>

\* GET /api/preferences
GetPreferences(u) ==
  /\ http' = Answer("GET /api/preferences", u, None, 0, StatusOk,
                    getUserPreferences(userPreferences, u))
  /\ UNCHANGED <<catalogVars, clientVars, watchlist, favorites, ratings,
                 userPreferences, userSeq>>

\* ------------------------------------------------------------ movie routes
\* Mutant: the lookup has no WHERE clause and takes the first row of the table.
getFirstMovie(tbl, id) == IF tbl = {} THEN {} ELSE {CHOOSE m \in tbl : TRUE}

getMovieById(tbl, id) == {m \in tbl : m.id = id}

\* like(movies.title, `%${query}%`): titles are tokens here, and a query matches
\* the rows whose title is that token. Ordered by popularity, descending.
searchMovies(tbl, query, page, limit) ==
  LET hits == {m \in tbl : m.title = query}
      offset == (page - 1) * limit
  IN { [ movies |-> SubSeq(ord, offset + 1, Min(offset + limit, Len(ord))),
         total |-> Cardinality(hits) ] : ord \in Orderings(hits, "popularity", "desc") }

\* getTrendingMovies: the most popular rows of the catalog.
getTrendingMovies(tbl, limit) ==
  { SubSeq(ord, 1, Min(limit, Len(ord))) : ord \in Orderings(tbl, "popularity", "desc") }

\* What GET /movie/{id}/videos of the external API lists for an item.
TmdbVideos(t) ==
  CASE t % 3 = 0 -> << [site |-> "YouTube", type |-> "Teaser", official |-> TRUE, key |-> 10 * t],
                       [site |-> "Vimeo", type |-> "Trailer", official |-> TRUE, key |-> 10 * t + 1] >>
    [] t % 3 = 1 -> << [site |-> "YouTube", type |-> "Trailer", official |-> FALSE, key |-> 10 * t] >>
    [] OTHER -> << [site |-> "YouTube", type |-> "Trailer", official |-> FALSE, key |-> 10 * t],
                   [site |-> "YouTube", type |-> "Trailer", official |-> TRUE, key |-> 10 * t + 1] >>

\* results.find(...): the first of the elements at the indices that satisfy the
\* predicate, {} when none does.
Find(results, hits) ==
  IF hits = {} THEN None
  ELSE Some(results[CHOOSE i \in hits : \A j \in hits : i <= j])

\* getYouTubeEmbedUrl: the official YouTube trailer, else any YouTube trailer,
\* else null; a failed videos fetch is caught and gives null as well.
getYouTubeEmbedUrl(tmdbId, ok) ==
  LET results == TmdbVideos(tmdbId)
      trailers == {i \in DOMAIN results :
                     results[i].site = "YouTube" /\ results[i].type = "Trailer"}
      official == Find(results, {i \in trailers : results[i].official})
      trailer == IF official # None THEN official ELSE Find(results, trailers)
  IN IF ok /\ trailer # None THEN Some(Val(trailer).key) ELSE None

\* GET /api/movies/:id. parseInt of a parameter that is no number is NaN (None
\* here), which the integer comparison of the query rejects.
GetMovie(id) ==
  LET route == "GET /api/movies/:id"
      movie == getMovieById(movies, Val(id))
  IN /\ http' =
          IF id = None THEN Caught(route, "", None, 0, "database")
          ELSE IF movie = {}
            THEN [ Answer(route, "", None, Val(id), StatusNotFound, None)
                   EXCEPT !.message = "Movie not found" ]
          ELSE Answer(route, "", None, Val(id), StatusOk, movie)
     /\ UNCHANGED <<catalogVars, clientVars, watchlist, favorites, ratings,
                    userPreferences, userSeq>>

\* GET /api/movies/:id/trailer: the videos fetch is made for a movie that
\* exists, and may fail.
GetTrailer(id, ok) ==
  LET route == "GET /api/movies/:id/trailer"
      movie == getMovieById(movies, Val(id))
  IN /\ http' =
          IF id = None THEN Caught(route, "", None, 0, "database")
          ELSE IF movie = {}
            THEN [ Answer(route, "", None, Val(id), StatusNotFound, None)
                   EXCEPT !.message = "Movie not found" ]
          ELSE [ Answer(route, "", None, Val(id), StatusOk,
                        getYouTubeEmbedUrl(Val(movie).tmdbId, ok))
                 EXCEPT !.tmdbCalls = 1, !.failure = IF ok THEN "" ELSE "external" ]
     /\ UNCHANGED <<catalogVars, clientVars, watchlist, favorites, ratings,
                    userPreferences, userSeq>>

\* GET /api/movies/search?q=&page=&limit=: a request without q is refused
\* before the try block's query runs; a negative limit fails in the database.
SearchMovies(q, page, limit) ==
  LET route == "GET /api/movies/search"
  IN /\ IF q = None
          THEN http' = [ Answer(route, "", None, 0, StatusBadRequest, None)
                         EXCEPT !.failure = "validation",
                                !.message = "Search query is required" ]
          ELSE IF limit < 0 \/ (page - 1) * limit < 0
            THEN http' = Caught(route, "", None, 0, "database")
          ELSE \E result \in searchMovies(movies, Val(q), page, limit) :
                 http' = Answer(route, "", None, 0, StatusOk, result)
     /\ UNCHANGED <<catalogVars, clientVars, watchlist, favorites, ratings,
                    userPreferences, userSeq>>

\* GET /api/movies/trending?limit=
GetTrending(limit) ==
  LET route == "GET /api/movies/trending"
  IN /\ IF limit < 0
          THEN http' = Caught(route, "", None, 0, "database")
          ELSE \E result \in getTrendingMovies(movies, limit) :
                 http' = Answer(route, "", None, 0, StatusOk, result)
     /\ UNCHANGED <<catalogVars, clientVars, watchlist, favorites, ratings,
                    userPreferences, userSeq>>

\* ------------------------------------------------------------------ client
\* The Home page (pages/home.tsx). cache: the results the movies query has
\* for the filters it has loaded, as [filters, data] pairs; trending: the data
\* of the trending query; posted: the sync endpoints it has POSTed to, and
\* effectPosts those the last step POSTed to.
HomeFilters ==
  [NoFields EXCEPT !.page = Some(DefaultPage), !.limit = Some(DefaultLimit),
                   !.sortBy = Some("popularity"), !.sortOrder = Some("desc")]

NoHome ==
  [ mounted |-> FALSE, page |-> "", authLoading |-> TRUE, user |-> None,
    filters |-> HomeFilters, cache |-> {}, trending |-> None,
    sentToLogin |-> FALSE, posted |-> {}, effectPosts |-> {},
    sidebarTimer |-> FALSE ]

\* const { data: moviesData } = useQuery({ queryKey: ["/api/movies", filters] }):
\* undefined (None) until the query of these filters has loaded.
MoviesData(h) ==
  LET hit == {e \in h.cache : e.filters = h.filters}
  IN IF hit = {} THEN None ELSE Some(Val(hit).data)

\* enabled: !!user
QueriesEnabled(h) == h.page = "home" /\ h.user # None

\* What the component returns: the spinner, null, or the page.
HomeRenders(h) ==
  IF h.page # "home" THEN "landing"
  ELSE IF h.authLoading THEN "spinner"
  ELSE IF h.user = None THEN "null"
  ELSE "page"

\* The redirect effect: a visitor without user is sent to the login flow.
RedirectEffect(h) == ~h.authLoading /\ h.user = None

\* The init effect: the sync mutations it fires.
InitEffect(h) ==
     (IF h.user # None /\ (MoviesData(h) = None \/ Len(Val(MoviesData(h)).movies) = 0)
        THEN {"popular"} ELSE {})
  \cup (IF h.user # None /\ (h.trending = None \/ Len(Val(h.trending)) = 0)
        THEN {"trending"} ELSE {})

\* A render that follows a state change, with the effects whose dependencies
\* ([user, authLoading] and [user, moviesData, trendingMovies]) have changed.
\* The page holds the FilterSidebar, whose effect has onFilterChange among its
\* dependencies: handleFilterChange is a new function in every render of Home,
\* so every render of the page clears the sidebar's timeout and sets a new one.
Rendered(old, new) ==
  LET first == ~old.mounted
      redirect == /\ first \/ old.user # new.user \/ old.authLoading # new.authLoading
                  /\ RedirectEffect(new)
      posts == IF \/ first \/ old.user # new.user
                  \/ MoviesData(old) # MoviesData(new)
                  \/ old.trending # new.trending
                 THEN InitEffect(new) ELSE {}
  IN [new EXCEPT !.sentToLogin = @ \/ redirect, !.effectPosts = posts,
                 !.posted = @ \cup posts,
                 !.sidebarTimer = (HomeRenders(new) = "page")]

\* The router shows Home: first render, the auth query is loading.
HomeMount ==
  /\ ~home.mounted
  /\ home' = Rendered(home, [NoHome EXCEPT !.mounted = TRUE, !.page = "home"])
  /\ UNCHANGED <<catalogVars, userVars, queries>>

\* The router shows the Landing page: static text and the login buttons.
LandingMount ==
  /\ ~home.mounted
  /\ home' = [NoHome EXCEPT !.mounted = TRUE, !.page = "landing",
                            !.authLoading = FALSE]
  /\ UNCHANGED <<catalogVars, userVars, queries>>

\* onClick={() => window.location.href = '/api/login'}
LandingLogin ==
  /\ home.mounted /\ home.page = "landing" /\ ~home.sentToLogin
  /\ home' = [home EXCEPT !.sentToLogin = TRUE]
  /\ UNCHANGED <<catalogVars, userVars, queries>>

\* useAuth settles: the session's user, or none for a visitor.
HomeAuthResolved(user) ==
  /\ home.mounted /\ home.page = "home" /\ home.authLoading
  /\ home' = Rendered(home, [home EXCEPT !.authLoading = FALSE, !.user = user])
  /\ UNCHANGED <<catalogVars, userVars, queries>>

\* What GET /api/movies answers for the filters: { movies, total }, or nothing
\* when the request fails.
MoviesResponses(tbl, f) ==
  IF ~SchemaAccepts(f) \/ PageQueryFails(ParseFilter(f)) THEN {}
  ELSE { [movies |-> pg, total |-> CountQuery(tbl, ParseFilter(f))] :
           pg \in PageQuery(tbl, ParseFilter(f)) }

\* The movies query (enabled with a user) loads or reloads its data.
HomeMoviesLoaded ==
  /\ home.mounted /\ QueriesEnabled(home) /\ ~home.sentToLogin
  /\ \E data \in MoviesResponses(movies, home.filters) :
       home' = Rendered(home,
                 [home EXCEPT !.cache = {e \in @ : e.filters # home.filters}
                                \cup {[filters |-> home.filters, data |-> data]}])
  /\ UNCHANGED <<catalogVars, userVars, queries>>

\* The trending query loads or reloads its data.
HomeTrendingLoaded ==
  /\ home.mounted /\ QueriesEnabled(home) /\ ~home.sentToLogin
  /\ \E data \in getTrendingMovies(movies, DefaultTrendingLimit) :
       home' = Rendered(home, [home EXCEPT !.trending = Some(data)])
  /\ UNCHANGED <<catalogVars, userVars, queries>>

\* handleFilterChange: setFilters(prev => ({ ...prev, ...newFilters, page: 1 }))
handleFilterChange(prev, newFilters) ==
  [k \in DOMAIN prev |->
     IF k = "page" THEN Some(DefaultPage)
     ELSE IF newFilters[k] # None THEN newFilters[k] ELSE prev[k]]

\* The user changes a filter or the sort option on the rendered page.
HomeFilterChange(newFilters) ==
  /\ home.mounted /\ HomeRenders(home) = "page" /\ ~home.sentToLogin
  /\ home' = Rendered(home,
               [home EXCEPT !.filters = handleFilterChange(@, newFilters)])
  /\ UNCHANGED <<catalogVars, userVars, queries>>

\* The value attributes of the sort selector's options, as the pieces of text
\* around each '-'.
SortOptionValues ==
  { <<"popularity", "-", "desc">>, <<"vote_average", "-", "desc">>,
    <<"release_date", "-", "desc">>, <<"title", "-", "asc">> }

\* e.target.value.split('-')
SplitOnDash(v) == SelectSeq(v, LAMBDA piece : piece # "-")

\* const [sortBy, sortOrder] = ...; the argument of handleFilterChange.
SortChange(v) ==
  [NoFields EXCEPT !.sortBy = Some(SplitOnDash(v)[1]),
                   !.sortOrder = Some(SplitOnDash(v)[2])]

\* The user picks an option of the sort selector.
HomeSortChange(v) ==
  /\ home.mounted /\ HomeRenders(home) = "page" /\ ~home.sentToLogin
  /\ v # <<Val(home.filters.sortBy), "-", Val(home.filters.sortOrder)>>
  /\ home' = Rendered(home,
               [home EXCEPT !.filters = handleFilterChange(@, SortChange(v))])
  /\ UNCHANGED <<catalogVars, userVars, queries>>

\* GET /api/movies: what the route answers to a request that carries the
\* filter q.
MoviesAnswers(tbl, q) ==
  LET route == "GET /api/movies"
  IN IF ~SchemaAccepts(q) THEN {Caught(route, "", None, 0, "validation")}
     ELSE IF PageQueryFails(ParseFilter(q)) THEN {Caught(route, "", None, 0, "database")}
     ELSE {Answer(route, "", None, 0, StatusOk, data) : data \in MoviesResponses(tbl, q)}

\* The movies query sends its request (the filters of its query key) and
\* gets the route's answer: the data on success, an error otherwise.
HomeMoviesFetched ==
  /\ home.mounted /\ QueriesEnabled(home) /\ ~home.sentToLogin
  /\ \E a \in MoviesAnswers(movies, home.filters) :
       /\ http' = a
       /\ home' = Rendered(home,
            IF a.status = StatusOk
              THEN [home EXCEPT !.cache = {e \in @ : e.filters # home.filters}
                                  \cup {[filters |-> home.filters, data |-> a.body]}]
              ELSE home)
  /\ UNCHANGED <<catalogVars, queries, watchlist, favorites, ratings,
                 userPreferences, userSeq>>

\* {moviesData.movies.length < moviesData.total && <Button ...>}: the Load
\* More button is on the page.
LoadMoreVisible(h) ==
  /\ HomeRenders(h) = "page" /\ MoviesData(h) # None
  /\ Len(Val(MoviesData(h)).movies) > 0
  /\ Len(Val(MoviesData(h)).movies) < Val(MoviesData(h)).total

\* handleLoadMore: setFilters(prev => ({ ...prev, page: prev.page! + 1 }))
handleLoadMore(prev) == [prev EXCEPT !.page = Some(Val(@) + 1)]

\* The user presses Load More.
HomeLoadMore ==
  /\ home.mounted /\ LoadMoreVisible(home) /\ ~home.sentToLogin
  /\ home' = Rendered(home, [home EXCEPT !.filters = handleLoadMore(@)])
  /\ UNCHANGED <<catalogVars, userVars, queries>>

\* What the sidebar's timeout passes to onFilterChange: its six selections
\* (they are the page's current values of these fields), no sort option.
SidebarSelections(f) ==
  [k \in DOMAIN f |->
     IF k \in {"genres", "regions", "ageRating", "releaseYearFrom", "ratingMin",
               "runtime"} THEN f[k] ELSE None]

\* The sidebar's timeout (300 ms after the last render of the page) fires:
\* onFilterChange({...}) is handleFilterChange.
SidebarTimerFires ==
  /\ home.mounted /\ home.sidebarTimer /\ ~home.sentToLogin
  /\ home' = Rendered(home,
               [home EXCEPT !.filters =
                  handleFilterChange(@, SidebarSelections(@))])
  /\ UNCHANGED <<catalogVars, userVars, queries>>

\* ------------------------------------- client: status and list queries
\* The queries of one movie's buttons and of the header, named by their request.
StatusKey(list) ==
  IF list = "watchlist" THEN "GET /api/watchlist/:movieId/status"
  ELSE "GET /api/favorites/:movieId/status"
ListKey(list) == IF list = "watchlist" THEN "GET /api/watchlist" ELSE "GET /api/favorites"
Lists == {"watchlist", "favorites"}
QueryKeys == {StatusKey(l) : l \in Lists} \cup {ListKey(l) : l \in Lists}

\* component: the component whose buttons the user presses, the movie card
\* (on the Home page) or the movie detail page; both come with the header.
\* cache: per query, "none" (not loaded), "fresh" or "invalidated", and its data.
\* inflight: the query or mutation whose request is under way.
NoQueries ==
  [ component |-> "", user |-> "", movieId |-> 0,
    cache |-> [k \in QueryKeys |-> [state |-> "none", data |-> None]],
    inflight |-> None ]

\* The request (not yet answered: status 0) the client sends.
Request(route, u, m) == [NoHttp EXCEPT !.route = route, !.user = u, !.movieId = m]

\* onSuccess of the card's add and remove mutations: the query keys it
\* invalidates are the status query's and the list query's.
CardInvalidates(list) == {StatusKey(list), ListKey(list)}

\* onSuccess of the detail page's add and remove mutations: the status query's
\* key only.
DetailInvalidates(list) == {StatusKey(list)}

Invalidates(component, list) ==
  IF component = "card" THEN CardInvalidates(list) ELSE DetailInvalidates(list)

\* queryClient.invalidateQueries({ queryKey }): loaded data is marked invalid.
Invalidated(cache, keys) ==
  [k \in DOMAIN cache |->
     IF k \in keys /\ cache[k].state = "fresh"
       THEN [cache[k] EXCEPT !.state = "invalidated"] ELSE cache[k]]

\* A signed-in user opens a page that shows the movie's buttons and the header.
ClientOpen(component, u, m) ==
  /\ queries.component = ""
  /\ queries' = [queries EXCEPT !.component = component, !.user = u, !.movieId = m]
  /\ UNCHANGED <<catalogVars, userVars, home>>

\* A query (enabled with a user) sends its request: on mount, or once it has
\* been invalidated.
ClientQuery(key) ==
  /\ queries.component # "" /\ queries.inflight = None
  /\ queries.cache[key].state # "fresh"
  /\ http' = Request(key, queries.user, IF key \in {ListKey(l) : l \in Lists}
                                          THEN 0 ELSE queries.movieId)
  /\ queries' = [queries EXCEPT !.inflight = Some([kind |-> "query", key |-> key])]
  /\ UNCHANGED <<catalogVars, home, watchlist, favorites, ratings,
                 userPreferences, userSeq>>

\* The query's response arrives: the status flag, or the list's total.
ClientQuerySettled ==
  /\ queries.inflight # None /\ Val(queries.inflight).kind = "query"
  /\ http.status # 0
  /\ LET key == Val(queries.inflight).key
         data == IF key \in {ListKey(l) : l \in Lists} THEN http.body.total
                 ELSE http.body
     IN queries' = [queries EXCEPT
                      !.inflight = None,
                      !.cache[key] = IF http.status = StatusOk
                                       THEN [state |-> "fresh", data |-> Some(data)]
                                       ELSE @]
  /\ UNCHANGED <<catalogVars, userVars, home>>

\* handleWatchlistToggle / handleFavoriteToggle: remove when the status query
\* says the movie is in the list, add otherwise (also while it has no data).
ClientToggle(list) ==
  LET status == queries.cache[StatusKey(list)].data
      remove == status # None /\ Val(status)
      route == IF remove
                 THEN (IF list = "watchlist" THEN "DELETE /api/watchlist/:movieId"
                       ELSE "DELETE /api/favorites/:movieId")
                 ELSE (IF list = "watchlist" THEN "POST /api/watchlist"
                       ELSE "POST /api/favorites")
  IN /\ queries.component # "" /\ queries.inflight = None
     /\ remove \/ InsertsLeft
     /\ http' = Request(route, queries.user, queries.movieId)
     /\ queries' = [queries EXCEPT
                      !.inflight = Some([kind |-> "mutation", key |-> list])]
     /\ UNCHANGED <<catalogVars, home, watchlist, favorites, ratings,
                    userPreferences, userSeq>>

\* The mutation's response arrives: onSuccess invalidates, onError only toasts.
ClientMutationSettled ==
  /\ queries.inflight # None /\ Val(queries.inflight).kind = "mutation"
  /\ http.status # 0
  /\ queries' = [queries EXCEPT
                   !.inflight = None,
                   !.cache = IF http.status = StatusOk
                               THEN Invalidated(@, Invalidates(queries.component,
                                                  Val(queries.inflight).key))
                               ELSE @]
  /\ UNCHANGED <<catalogVars, userVars, home>>

\* The server has a request of this route to answer.
Pending(route) == http.status = 0 /\ http.route = route

\* ---------------------------------------------------------- specifications
UserInit ==
  /\ watchlist = {}
  /\ favorites = {}
  /\ ratings = {}
  /\ userPreferences = {}
  /\ userSeq = [watchlist |-> 0, favorites |-> 0, ratings |-> 0, prefs |-> 0]
  /\ http = NoHttp

\* The client has not loaded a page; the external data is at its first revision.
ClientInit ==
  /\ tmdbRev = 0
  /\ home = NoHome
  /\ queries = NoQueries

Init ==
  /\ movies = {}
  /\ movieSeq = 0
  /\ sync = [p \in Procs |-> IdleSync]
  /\ okCats = {}
  /\ gm = IdleGm
  /\ UserInit
  /\ ClientInit

SyncNext(ps) ==
  \/ \E p \in ps, cat \in Categories, ok \in BOOLEAN : SyncListing(p, cat, ok)
  \/ \E p \in ps : SyncCheck(p)
  \/ \E p \in ps, ok \in BOOLEAN : SyncDetails(p, ok)
  \/ \E p \in ps : SyncCreate(p)
  \/ \E p \in ps : SyncReturn(p)

\* Concurrent sync requests against the shared catalog.
Next == SyncNext(Procs)

Spec == Init /\ [][Next]_vars

NextRefresh ==
  \/ SyncNext({"s1"})
  \/ TmdbChange

\* Sync requests, one after the other, while the external data changes.
SpecRefresh == Init /\ [][NextRefresh]_vars

NextPages ==
  \/ SyncNext({"s1"})
  \/ \E page \in 1..PopularPages, ok \in BOOLEAN : SyncPopularPage("s1", page, ok)

\* Sync requests, one after the other, the popular ones for any page.
SpecPages == Init /\ [][NextPages]_vars

\* The filters of the getMovies calls that run beside a sync request.
QueryInputs ==
  { NoFields,
    [NoFields EXCEPT !.ratingMin = Some(70)],
    [NoFields EXCEPT !.runtime = Some("90to120"), !.limit = Some(1)],
    [NoFields EXCEPT !.sortBy = Some("rating"), !.page = Some(2), !.limit = Some(1)] }

NextQuery ==
  \/ SyncNext({"s1"})
  \/ GmCall(QueryInputs)
  \/ GmPageQuery
  \/ GmCountQuery
  \/ GmReturn

\* One sync request and one getMovies call, interleaved at every await.
SpecQuery == Init /\ [][NextQuery]_vars

\* The filter inputs movieFilterSchema accepts, drawn field by field.
Opt(vals) == {None} \cup {Some(v) : v \in vals}
SortKeys == SchemaSortKeys
SortOrders == SchemaSortOrders
RuntimeBuckets == SchemaRuntimes

PagingInputs ==
  { [NoFields EXCEPT !.sortBy = a, !.sortOrder = b, !.page = c, !.limit = d,
                     !.ratingMin = e] :
      a \in Opt(SortKeys), b \in Opt(SortOrders), c \in Opt((-1)..MaxPage),
      d \in Opt((-1)..MaxLimit), e \in Opt({0, 70}) }

ConditionInputs ==
  { [NoFields EXCEPT !.genres = a, !.regions = b, !.releaseYearFrom = c,
                     !.ratingMin = d, !.ratingMax = e, !.runtime = g,
                     !.ageRating = h] :
      a \in Opt({{}, {28}}), b \in Opt({{"hi"}}), c \in Opt({0, 2000}),
      d \in Opt({0, 70}), e \in Opt({0, 70}), g \in Opt(RuntimeBuckets),
      h \in Opt({{"PG"}}) }

FilterInputs == PagingInputs \cup ConditionInputs

\* The catalogs sequential sync requests leave behind: each request inserts, in
\* listing order, the absent items among the first k of its listing (a failed
\* fetch stops it after k items).
Absent(ord, items) == SelectSeq(items, LAMBDA t : t \notin Range(ord))
AfterOneSync(ord) ==
  UNION { { ord \o Absent(ord, SubSeq(Listing(cat), 1, k)) :
              k \in 0..Len(Listing(cat)) } : cat \in Categories }
RECURSIVE InsertionOrders(_)
InsertionOrders(n) ==
  IF n = 0 THEN {<<>>}
  ELSE LET prev == InsertionOrders(n - 1)
       IN prev \cup UNION {AfterOneSync(ord) : ord \in prev}

CatalogOf(ord) ==
  {MovieRow(i, InsertMovieOf(TmdbDetails(ord[i]))) : i \in DOMAIN ord}

InitFilter ==
  /\ \E ord \in InsertionOrders(MaxTmdb) :
       /\ movies = CatalogOf(ord)
       /\ movieSeq = Len(ord)
       /\ okCats = {cat \in Categories : Range(Listing(cat)) \subseteq Range(ord)}
  /\ sync = [p \in Procs |-> IdleSync]
  /\ gm = IdleGm
  /\ UserInit
  /\ ClientInit

NextFilter ==
  \/ GmCall(FilterInputs)
  \/ GmPageQuery
  \/ GmCountQuery
  \/ GmReturn

\* getMovies on a catalog at rest, over the filter inputs.
SpecFilter == InitFilter /\ [][NextFilter]_vars

\* The filters with numeric fields that are absent, 0 or another number.
ZeroInputs ==
  { [NoFields EXCEPT !.ratingMin = a, !.ratingMax = b, !.releaseYearFrom = c,
                     !.releaseYearTo = d, !.page = e, !.limit = g] :
      a \in Opt({0, 70}), b \in Opt({0, 70}), c \in Opt({0, 2000}),
      d \in Opt({0}), e \in Opt({0, 1}), g \in Opt({0, 1}) }

NextZero ==
  \/ GmCall(ZeroInputs)
  \/ GmPageQuery
  \/ GmCountQuery
  \/ GmReturn

\* getMovies on a catalog at rest, over filters with fields that are 0.
SpecZero == InitFilter /\ [][NextZero]_vars

\* The runtimes the external source may report for an item: none, and the
\* values on both sides of each bucket boundary.
RuntimeValues ==
  {None, Some(Under90 - 1), Some(Under90), Some(UpTo120), Some(UpTo120 + 1)}

\* The catalog a popular sync leaves when the source reports these runtimes.
CatalogWithRuntimes(rt) ==
  { MovieRow(i, [InsertMovieOf(TmdbDetails(PopularListing[i])) EXCEPT !.runtime = rt[i]]) :
      i \in DOMAIN PopularListing }

InitRuntime ==
  /\ \E rt \in [DOMAIN PopularListing -> RuntimeValues] :
       movies = CatalogWithRuntimes(rt)
  /\ movieSeq = Len(PopularListing)
  /\ okCats = {"popular"}
  /\ sync = [p \in Procs |-> IdleSync]
  /\ gm = IdleGm
  /\ UserInit
  /\ ClientInit

RuntimeInputs == {[NoFields EXCEPT !.runtime = g] : g \in Opt(RuntimeBuckets)}

NextRuntime ==
  \/ GmCall(RuntimeInputs)
  \/ GmPageQuery
  \/ GmCountQuery
  \/ GmReturn

\* getMovies with a runtime bucket, over catalogs of movies of every runtime.
SpecRuntime == InitRuntime /\ [][NextRuntime]_vars

\* The user routes run on the catalog a successful popular sync leaves.
InitUser ==
  /\ movies = CatalogOf(PopularListing)
  /\ movieSeq = ListLen
  /\ okCats = {cat \in Categories : Range(Listing(cat)) \subseteq Range(PopularListing)}
  /\ sync = [p \in Procs |-> IdleSync]
  /\ gm = IdleGm
  /\ UserInit
  /\ ClientInit

\* A body carries no userId, or names another user than the session's.
BodyUsers(u) == {None} \cup {Some(v) : v \in Users \ {u}}
BodyMovieIds == {None} \cup {Some(m) : m \in RequestMovieIds}
RatingInputs ==
  { [tenths |-> 70, asString |-> TRUE], [tenths |-> 100, asString |-> TRUE],
    [tenths |-> 70, asString |-> FALSE] }
AgeRatingInputs == {None, Some("PG"), Some("R")}

NextUser ==
  \/ \E u \in Users : \E b \in BodyUsers(u), m \in BodyMovieIds : PostWatchlist(u, b, m)
  \/ \E u \in Users, m \in RequestMovieIds : DeleteWatchlist(u, m)
  \/ \E u \in Users, m \in RequestMovieIds : GetWatchlistStatus(u, m)
  \/ \E u \in Users, limit \in {1, DefaultLimit} : GetWatchlist(u, DefaultPage, limit)
  \/ \E u \in Users : \E b \in BodyUsers(u), m \in BodyMovieIds : PostFavorites(u, b, m)
  \/ \E u \in Users, m \in RequestMovieIds : DeleteFavorites(u, m)
  \/ \E u \in Users, m \in RequestMovieIds : GetFavoritesStatus(u, m)
  \/ \E u \in Users, limit \in {1, DefaultLimit} : GetFavorites(u, DefaultPage, limit)
  \/ \E u \in Users : \E b \in BodyUsers(u), m \in RequestMovieIds,
        r \in RatingInputs : PostRating(u, b, m, r)
  \/ \E u \in Users, m \in RequestMovieIds : GetRating(u, m)
  \/ \E u \in Users : \E b \in BodyUsers(u), a \in AgeRatingInputs : PostPreferences(u, b, a)
  \/ \E u \in Users : GetPreferences(u)

\* Requests of authenticated users to the user routes, one statement each.
SpecUser == InitUser /\ [][NextUser]_vars

\* The page opens on an empty catalog or on the one a popular sync has left.
InitHome ==
  /\ \E ord \in {<<>>, PopularListing} :
       /\ movies = CatalogOf(ord)
       /\ movieSeq = Len(ord)
       /\ okCats = {cat \in Categories : Range(Listing(cat)) \subseteq Range(ord)}
  /\ sync = [p \in Procs |-> IdleSync]
  /\ gm = IdleGm
  /\ UserInit
  /\ ClientInit

\* The filter changes the user makes: a rating floor, a sort option.
HomeFilterInputs ==
  { [NoFields EXCEPT !.ratingMin = Some(80)],
    [NoFields EXCEPT !.sortBy = Some("title"), !.sortOrder = Some("asc")] }

NextHome ==
  \/ HomeMount
  \/ LandingMount
  \/ LandingLogin
  \/ \E user \in {None, Some("u1")} : HomeAuthResolved(user)
  \/ HomeMoviesLoaded
  \/ HomeTrendingLoaded
  \/ \E f \in HomeFilterInputs : HomeFilterChange(f)
  \/ SidebarTimerFires
  \/ \E cat \in home.posted, ok \in BOOLEAN : SyncListing("s1", cat, ok)
  \/ SyncCheck("s1")
  \/ \E ok \in BOOLEAN : SyncDetails("s1", ok)
  \/ SyncCreate("s1")
  \/ SyncReturn("s1")

\* One browser on the Home (or Landing) page, and the sync requests it posts.
SpecHome == InitHome /\ [][NextHome]_vars

\* A catalog of one movie more than a page of the Home page holds.
InitLoadMore ==
  /\ movies = CatalogOf([i \in 1..(DefaultLimit + 1) |-> i])
  /\ movieSeq = DefaultLimit + 1
  /\ okCats = Categories
  /\ sync = [p \in Procs |-> IdleSync]
  /\ gm = IdleGm
  /\ UserInit
  /\ ClientInit

\* The filter changes the user makes there: a rating floor, a runtime bucket.
LoadMoreFilterInputs ==
  { [NoFields EXCEPT !.ratingMin = Some(70)],
    [NoFields EXCEPT !.runtime = Some("under90")] }

NextLoadMore ==
  \/ HomeMount
  \/ \E user \in {None, Some("u1")} : HomeAuthResolved(user)
  \/ HomeMoviesLoaded
  \/ HomeTrendingLoaded
  \/ \E f \in LoadMoreFilterInputs : HomeFilterChange(f)
  \/ HomeLoadMore
  \/ SidebarTimerFires

\* One browser on the Home page of a catalog that fills more than one page.
SpecLoadMore == InitLoadMore /\ [][NextLoadMore]_vars

NextSort ==
  \/ HomeMount
  \/ \E user \in {None, Some("u1")} : HomeAuthResolved(user)
  \/ HomeMoviesFetched
  \/ HomeTrendingLoaded
  \/ \E v \in SortOptionValues : HomeSortChange(v)
  \/ SidebarTimerFires

\* One browser on the Home page, the user picking sort options.
SpecSort == InitHome /\ [][NextSort]_vars

\* One signed-in user on a page with a movie's buttons and the header.
NextClient ==
  \/ \E c \in {"card", "detail"} : ClientOpen(c, "u1", 1)
  \/ \E k \in QueryKeys : ClientQuery(k)
  \/ ClientQuerySettled
  \/ \E l \in Lists : ClientToggle(l)
  \/ ClientMutationSettled
  \/ Pending("POST /api/watchlist") /\ PostWatchlist(http.user, None, Some(http.movieId))
  \/ Pending("DELETE /api/watchlist/:movieId") /\ DeleteWatchlist(http.user, http.movieId)
  \/ Pending("GET /api/watchlist/:movieId/status")
       /\ GetWatchlistStatus(http.user, http.movieId)
  \/ Pending("GET /api/watchlist") /\ GetWatchlist(http.user, DefaultPage, DefaultLimit)
  \/ Pending("POST /api/favorites") /\ PostFavorites(http.user, None, Some(http.movieId))
  \/ Pending("DELETE /api/favorites/:movieId") /\ DeleteFavorites(http.user, http.movieId)
  \/ Pending("GET /api/favorites/:movieId/status")
       /\ GetFavoritesStatus(http.user, http.movieId)
  \/ Pending("GET /api/favorites") /\ GetFavorites(http.user, DefaultPage, DefaultLimit)

\* The client's queries and mutations against the user routes.
SpecClient == InitUser /\ [][NextClient]_vars

\* The :id parameter of a movie route: no number, a movie's id, no movie's id.
RequestIds == {None} \cup {Some(m) : m \in RequestMovieIds}
\* The q parameter of a search: missing, a title of the catalog, another title.
SearchInputs == {None} \cup {Some(TmdbDetails(t).title) : t \in {MaxTmdb, MaxTmdb + 1}}

NextBrowse ==
  \/ \E id \in RequestIds : GetMovie(id)
  \/ \E id \in RequestIds, ok \in BOOLEAN : GetTrailer(id, ok)
  \/ \E q \in SearchInputs, limit \in {-1, 1, DefaultLimit} : SearchMovies(q, DefaultPage, limit)
  \/ \E limit \in {-1, 1, DefaultTrendingLimit} : GetTrending(limit)
  \/ \E u \in Users : \E b \in BodyUsers(u), m \in RequestMovieIds,
        r \in RatingInputs : PostRating(u, b, m, r)
  \/ \E u \in Users, m \in RequestMovieIds : GetRating(u, m)
  \/ \E u \in Users : \E b \in BodyUsers(u), a \in AgeRatingInputs : PostPreferences(u, b, a)
  \/ \E u \in Users : GetPreferences(u)

\* Requests to the movie routes (no session needed) and to the rating and
\* preferences routes, on the catalog a popular sync leaves.
SpecBrowse == InitUser /\ [][NextBrowse]_vars

\* ------------------------------------------------------------------ claims
\* What the claims say a present field requires of a returned movie.
ClaimedMatch(m, f) ==
  /\ (Has(f, "genres") /\ Get(f, "genres") # {}) => m.genres \cap Get(f, "genres") # {}
  /\ Has(f, "regions") => m.originalLanguage \in Get(f, "regions")
  /\ Has(f, "releaseYearFrom") =>
       m.releaseYear # None /\ Val(m.releaseYear) >= Get(f, "releaseYearFrom")
  /\ Has(f, "releaseYearTo") =>
       m.releaseYear # None /\ Val(m.releaseYear) <= Get(f, "releaseYearTo")
  /\ Has(f, "ratingMin") => m.voteAverage >= Get(f, "ratingMin")
  /\ Has(f, "ratingMax") => m.voteAverage <= Get(f, "ratingMax")
  /\ (Has(f, "runtime") /\ Get(f, "runtime") = "under90") =>
       m.runtime # None /\ Val(m.runtime) < Under90
  /\ (Has(f, "runtime") /\ Get(f, "runtime") = "90to120") =>
       m.runtime # None /\ Val(m.runtime) >= Under90 /\ Val(m.runtime) <= UpTo120
  /\ (Has(f, "runtime") /\ Get(f, "runtime") = "over120") =>
       m.runtime # None /\ Val(m.runtime) > UpTo120

\* C1: for every accepted filter input, the page getMovies returns holds at
\* most the requested limit of movies (the default when the limit is absent).
C1_PageWithinRequestedLimit ==
  GmResolved => Len(gm.movies) <= Get(gm.filters, "limit")

\* C2 as stated: the total getMovies reports equals the unpaginated count of the
\* matching movies in the catalog state the page was read from, also while a
\* sync inserts movies between the two queries.
C2_TotalCountsPageState ==
  GmResolved =>
    gm.total = Cardinality({m \in gm.pageSnap : ClaimedMatch(m, gm.filters)})

\* C2 amended: the total equals the unpaginated count of the matching movies in
\* the catalog state the count query read, whatever page and limit are; every
\* returned movie matches in the state the page query read; and the total is the
\* count in the page's state whenever no movie was inserted between the queries.
C2_TotalCountsCountState ==
  GmResolved =>
    /\ gm.total = Cardinality({m \in gm.countSnap : ClaimedMatch(m, gm.filters)})
    /\ Range(gm.movies) \subseteq {m \in gm.pageSnap : ClaimedMatch(m, gm.filters)}
    /\ gm.pageSnap = gm.countSnap =>
         gm.total = Cardinality({m \in gm.pageSnap : ClaimedMatch(m, gm.filters)})

\* C2 witness: a sync insert of a matching movie fell between the page query
\* and the count query of a call with a rating filter.
C2_InsertBetweenQueries ==
  /\ GmResolved
  /\ Has(gm.filters, "ratingMin")
  /\ gm.pageSnap # gm.countSnap
  /\ gm.total # Cardinality({m \in gm.pageSnap : ClaimedMatch(m, gm.filters)})

\* C6: a sync call that finds every item of its listing present (in particular
\* one that follows a successful sync of the same listing) inserts no row,
\* fetches no details and answers with the existing rows, in listing order.
C6_SyncOfPresentListingIsNoOp ==
  \A p \in Procs :
    LET c == sync[p]
        l == Listing(c.cat)
    IN (c.presentAtStart \/ c.afterOk) =>
         /\ c.inserted = 0
         /\ c.fetched = 0
         /\ c.pc = "done" =>
              /\ c.status = StatusOk
              /\ Len(c.synced) = Len(l)
              /\ \A i \in DOMAIN l :
                   c.synced[i] \in movies /\ c.synced[i].tmdbId = l[i]

\* C6 witness: a second sync of a listing already synced has answered.
C6_SecondSyncAnswered ==
  \E p \in Procs :
    /\ sync[p].pc = "done" /\ sync[p].afterOk /\ sync[p].presentAtStart
    /\ sync[p].status = StatusOk /\ Len(sync[p].synced) = ListLen

\* C7: the movies table holds at most one row per external (tmdb) id.
C7_OneRowPerTmdbId ==
  \A m1, m2 \in movies : m1.tmdbId = m2.tmdbId => m1 = m2

\* C7 witness: two overlapping syncs raced on one external id and the
\* database rejected the later insert.
C7_RaceRejected ==
  \E p, q \in Procs :
    /\ p # q
    /\ sync[p].pc = "done" /\ sync[p].failedAt = "insert"
    /\ sync[q].inserted > 0

\* C8: with ratingMin = r, sortBy = rating, sortOrder = desc, page = 1 and
\* limit = n, getMovies returns at most n movies, each rated >= r, in
\* non-increasing order of rating.
C8_RatingMinSortedDesc ==
  LET f == gm.filters
      ms == gm.movies
  IN ( /\ GmResolved
       /\ Has(f, "ratingMin")
       /\ f.sortBy = Some("rating") /\ f.sortOrder = Some("desc")
       /\ f.page = Some(1) ) =>
         /\ Len(ms) <= Get(f, "limit")
         /\ \A i \in DOMAIN ms : ms[i].voteAverage >= Get(f, "ratingMin")
         /\ \A i, j \in DOMAIN ms : i < j => ms[i].voteAverage >= ms[j].voteAverage

\* C9: every present filter field contributes one AND-ed condition: each
\* returned movie, and each movie counted in total, satisfies the condition of
\* every present field.
C9_EveryPresentFieldFilters ==
  GmResolved =>
    /\ \A i \in DOMAIN gm.movies : ClaimedMatch(gm.movies[i], gm.filters)
    /\ gm.total = Cardinality({m \in gm.countSnap : ClaimedMatch(m, gm.filters)})

OwnRows(tbl, u) == {r \in tbl : r.userId = u}
SamePair(r1, r2) == r1.userId = r2.userId /\ r1.movieId = r2.movieId

\* C3: the watchlist and the favorites table each hold at most one row per
\* (user, movie) pair; a second add of the same pair is a no-op.
C3_OneRowPerUserMoviePair ==
  /\ \A r1, r2 \in watchlist : SamePair(r1, r2) => r1 = r2
  /\ \A r1, r2 \in favorites : SamePair(r1, r2) => r1 = r2

\* C4: rating the same (user, movie) a second time succeeds and leaves exactly
\* one rating row for the pair, holding the second value.
C4_SecondRatingOverwrites ==
  ( /\ http.route = "POST /api/ratings" /\ http.repeat
    /\ http.rating.asString /\ RatingFits(http.rating.tenths) ) =>
      /\ http.status = StatusOk
      /\ \E r \in ratings :
           /\ r.userId = http.user /\ r.movieId = http.movieId
           /\ r.rating = http.rating.tenths
           /\ \A r2 \in ratings : SamePair(r, r2) => r2 = r

\* C5: a DELETE for a (user, movie) pair that is not in the watchlist (or the
\* favorites), and a DELETE repeated right after the same DELETE, answers
\* success and leaves the table unchanged.
C5_RemoveAbsentSucceeds ==
  [][ /\ ( /\ http'.route = "DELETE /api/watchlist/:movieId"
           /\ \/ ~isInWatchlist(watchlist, http'.user, http'.movieId)
              \/ http'.repeat ) =>
             (http'.status = StatusOk /\ watchlist' = watchlist)
      /\ ( /\ http'.route = "DELETE /api/favorites/:movieId"
           /\ \/ ~isInFavorites(favorites, http'.user, http'.movieId)
              \/ http'.repeat ) =>
             (http'.status = StatusOk /\ favorites' = favorites) ]_vars

\* C5 witness: a remove was repeated on a pair no longer in the watchlist,
\* while the user's other row stayed.
C5_RepeatedRemove ==
  /\ http.route = "DELETE /api/watchlist/:movieId" /\ http.repeat
  /\ http.status = StatusOk
  /\ ~isInWatchlist(watchlist, http.user, http.movieId)
  /\ OwnRows(watchlist, http.user) # {}

\* What a response may show: only what the session user's own rows hold.
ResponseFromOwnRows ==
  LET u == http.user
  IN /\ http.route = "GET /api/watchlist/:movieId/status" =>
          http.body = isInWatchlist(OwnRows(watchlist, u), u, http.movieId)
     /\ http.route = "GET /api/favorites/:movieId/status" =>
          http.body = isInFavorites(OwnRows(favorites, u), u, http.movieId)
     /\ http.route = "GET /api/watchlist" =>
          /\ http.body.total = Cardinality(OwnRows(watchlist, u))
          /\ \A i \in DOMAIN http.body.movies :
               \E r \in OwnRows(watchlist, u) : r.movieId = http.body.movies[i].id
     /\ http.route = "GET /api/favorites" =>
          /\ http.body.total = Cardinality(OwnRows(favorites, u))
          /\ \A i \in DOMAIN http.body.movies :
               \E r \in OwnRows(favorites, u) : r.movieId = http.body.movies[i].id
     /\ (http.route = "POST /api/watchlist" /\ http.status = StatusOk) =>
          (http.body # {} /\ http.body \subseteq OwnRows(watchlist, u))
     /\ (http.route = "POST /api/favorites" /\ http.status = StatusOk) =>
          (http.body # {} /\ http.body \subseteq OwnRows(favorites, u))
     /\ http.route \in {"GET /api/ratings/:movieId", "POST /api/ratings"} =>
          http.body \subseteq OwnRows(ratings, u)
     /\ http.route \in {"GET /api/preferences", "POST /api/preferences"} =>
          http.body = OwnRows(userPreferences, u)

\* C10: every watchlist, favorites, ratings and preferences request reads and
\* writes only the rows of the session's user: its response shows only that
\* user's rows, whatever userId the body carries, and it leaves every other
\* user's rows as they were.
C10_ScopedToSessionUser ==
  /\ []ResponseFromOwnRows
  /\ [][ \A v \in Users : v # http'.user =>
           /\ OwnRows(watchlist', v) = OwnRows(watchlist, v)
           /\ OwnRows(favorites', v) = OwnRows(favorites, v)
           /\ OwnRows(ratings', v) = OwnRows(ratings, v)
           /\ OwnRows(userPreferences', v) = OwnRows(userPreferences, v) ]_vars

\* C10 witness: a POST whose body names another user, who has rows of their
\* own, was answered with a row of the session's user.
C10_BodyNamesOtherUser ==
  /\ http.route = "POST /api/watchlist" /\ http.status = StatusOk
  /\ http.bodyUser # None
  /\ OwnRows(watchlist, Val(http.bodyUser)) # {}
  /\ http.body \subseteq OwnRows(watchlist, http.user)

\* C11: every failure inside a route handler (external API error, database
\* error, request validation error) is answered with status 500 and the
\* handler's generic failure message, never with another status or a success.
C11_EveryFailureAnswered500 ==
  http.failure # "" => (http.status = StatusError /\ http.message = "generic")

\* C12: GET /movies/:id and GET /movies/:id/trailer for an id that no local
\* movie has answer 404 "Movie not found" and make no call to the external
\* API; GET /ratings/:movieId and GET /preferences for a user who has no such
\* row answer null with success.
C12_MissingResourceIsNotFailure ==
  /\ ( /\ http.route \in {"GET /api/movies/:id", "GET /api/movies/:id/trailer"}
       /\ http.movieId # 0
       /\ \A m \in movies : m.id # http.movieId ) =>
         /\ http.status = StatusNotFound
         /\ http.message = "Movie not found"
         /\ http.tmdbCalls = 0
  /\ ( /\ http.route = "GET /api/ratings/:movieId"
       /\ \A r \in ratings : ~(r.userId = http.user /\ r.movieId = http.movieId) ) =>
         (http.status = StatusOk /\ http.body = None)
  /\ ( /\ http.route = "GET /api/preferences"
       /\ \A r \in userPreferences : r.userId # http.user ) =>
         (http.status = StatusOk /\ http.body = None)

\* C12 witness: the trailer of an id that no movie of a non-empty catalog has
\* was asked for, while some other user has a preferences row.
C12_TrailerOfMissingMovie ==
  /\ http.route = "GET /api/movies/:id/trailer"
  /\ http.movieId # 0 /\ movies # {}
  /\ \A m \in movies : m.id # http.movieId
  /\ http.status = StatusNotFound
  /\ userPreferences # {}

\* C13: when the listing fetch, a details fetch or an insert fails during a
\* sync call, the call stops there: the items before the failing one are
\* settled and their rows stay in the catalog, the failing item was tried once,
\* no later item is checked or inserted, and the caller gets only the generic
\* failure response, with no list of synced movies.
C13_FailureAbortsSync ==
  /\ [](\A p \in Procs :
          LET c == sync[p]
          IN c.failedAt # "" =>
               /\ c.pc = "done" /\ c.status = StatusError
               /\ SyncResponse(c) = [message |-> "generic"]
               /\ Range(c.synced) \subseteq movies
               /\ IF c.failedAt = "listing"
                    THEN c.i = 0 /\ c.fetched = 0 /\ c.inserted = 0
                    ELSE /\ Len(c.synced) = c.i - 1
                         /\ c.fetched = c.inserted + 1)
  /\ [][\A p \in Procs :
          sync[p].failedAt # "" =>
            /\ sync'[p] \in {sync[p], IdleSync}
            /\ movies \subseteq movies']_vars

\* C13 witness: a call inserted the first item of its listing and failed on the
\* details fetch of the second.
C13_FailedAfterPartialInsert ==
  \E p \in Procs :
    /\ sync[p].failedAt = "details" /\ sync[p].i = 2
    /\ sync[p].inserted = 1
    /\ Range(sync[p].synced) \subseteq movies

\* C19: when a sync call reaches its insert for an external id that another
\* call has inserted since the check, the insert is rejected by the unique
\* constraint and not handled: the call ends with the generic failure response,
\* not with the row the other call inserted, and the catalog is unchanged.
C19_LostRaceEndsInFailure ==
  /\ [](\A p \in Procs :
          sync[p].failedAt = "insert" =>
            LET c == sync[p]
            IN /\ \E m \in movies : m.tmdbId = Listing(c.cat)[c.i]
               /\ \A k \in DOMAIN c.synced : c.synced[k].tmdbId # Listing(c.cat)[c.i]
               /\ SyncResponse(c) = [message |-> "generic"])
  /\ [][\A p \in Procs :
          ( /\ sync[p].pc = "create" /\ sync'[p] # sync[p]
            /\ \E m \in movies : m.tmdbId = Listing(sync[p].cat)[sync[p].i] ) =>
              /\ sync'[p].pc = "done" /\ sync'[p].status = StatusError
              /\ sync'[p].failedAt = "insert"
              /\ movies' = movies]_vars

\* C19 witness: two calls both reached the insert for one external id; one
\* answered with the row it inserted, the other with the failure.
C19_BothAttemptedInsert ==
  \E p, q \in Procs :
    /\ p # q
    /\ sync[p].pc = "done" /\ sync[p].failedAt = "insert"
    /\ sync[q].pc = "done" /\ sync[q].status = StatusOk /\ sync[q].inserted > 0
    /\ \E k \in DOMAIN sync[q].synced :
         sync[q].synced[k].tmdbId = Listing(sync[p].cat)[sync[p].i]

\* The external source now reports other data for the row than the row holds.
Outdated(m) ==
  \E f \in {"voteAverage", "popularity"} :
    InsertMovieOf(TmdbDetailsAt(m.tmdbId, tmdbRev))[f] # m[f]

\* C20: a sync call changes no field of a row that was in the catalog before
\* it, and makes no details fetch for a listing item whose external id is
\* present, also when the external source reports other data for the item.
C20_PresentRowsUntouched ==
  [][ /\ \A m \in movies : m \in movies'
      /\ \A p \in Procs :
           ( /\ sync[p].pc = "check"
             /\ \E m \in movies : m.tmdbId = Listing(sync[p].cat)[sync[p].i] ) =>
               /\ sync'[p].pc # "details"
               /\ sync'[p].fetched = sync[p].fetched
               /\ movies' = movies ]_vars

\* C20 witness: a sync call that inserted nothing has answered with a row whose
\* data the external source has changed since.
C20_OutdatedRowKept ==
  \E p \in Procs :
    /\ sync[p].pc = "done" /\ sync[p].status = StatusOk
    /\ sync[p].inserted = 0 /\ sync[p].fetched = 0
    /\ \E k \in DOMAIN sync[p].synced :
         sync[p].synced[k] \in movies /\ Outdated(sync[p].synced[k])

\* C17: every rating from 1 through 10 (10 to 100 in tenths) that is posted is
\* stored by rateMovie and read back unchanged by getUserRating.
C17_RatingsOneToTen ==
  ( /\ http.route = "POST /api/ratings"
    /\ \E v \in 1..10 : http.rating.tenths = 10 * v ) =>
      /\ http.status = StatusOk
      /\ \E r \in getUserRating(ratings, http.user, http.movieId) :
           r.rating = http.rating.tenths

\* A request that added (resp. removed) the pair has just been answered.
Added(h, route, u, m) ==
  h.route = route /\ h.status = StatusOk /\ h.user = u /\ h.movieId = m

\* C18: isInWatchlist (resp. isInFavorites) of a (user, movie) pair is false
\* before any add, true after a successful add of the pair, false after a remove
\* of the pair, and unchanged by every other request, those that add or remove
\* other pairs included.
C18_StatusFollowsLastOperation ==
  /\ \A u \in Users, m \in RequestMovieIds :
       ~isInWatchlist(watchlist, u, m) /\ ~isInFavorites(favorites, u, m)
  /\ [][\A u \in Users, m \in RequestMovieIds :
          /\ isInWatchlist(watchlist', u, m) =
               IF Added(http', "POST /api/watchlist", u, m) THEN TRUE
               ELSE IF Added(http', "DELETE /api/watchlist/:movieId", u, m) THEN FALSE
               ELSE isInWatchlist(watchlist, u, m)
          /\ isInFavorites(favorites', u, m) =
               IF Added(http', "POST /api/favorites", u, m) THEN TRUE
               ELSE IF Added(http', "DELETE /api/favorites/:movieId", u, m) THEN FALSE
               ELSE isInFavorites(favorites, u, m)]_vars

\* C18 witness: a user removed a movie that another user still has in the
\* watchlist, and the status of the user's pair is false.
C18_RemovedWhileOtherUserKeeps ==
  /\ http.route = "DELETE /api/watchlist/:movieId" /\ http.status = StatusOk
  /\ ~isInWatchlist(watchlist, http.user, http.movieId)
  /\ \E r \in watchlist : r.movieId = http.movieId /\ r.userId # http.user
  /\ userSeq.watchlist >= 2

\* C14: browsing requires no sign-in: a visitor whose page has found no
\* authenticated user is shown the page with its movie and trending queries
\* enabled, and is not sent to the login flow.
C14_VisitorBrowsesWithoutSignIn ==
  (home.mounted /\ ~home.authLoading /\ home.user = None) =>
    /\ HomeRenders(home) = "page"
    /\ QueriesEnabled(home)
    /\ ~home.sentToLogin

\* C15: the home page posts to a sync endpoint only when the catalog is empty:
\* no load of the page and no filter change posts while the catalog holds movies.
C15_SyncOnlyWhenCatalogEmpty ==
  [][(home' # home /\ home'.effectPosts # {}) => movies = {}]_vars

\* C16: after every successful watchlist or favorite add or remove, whichever
\* component issued it, neither the movie's status query nor the list query
\* (whose total the header shows) is left marked fresh.
C16_MutationInvalidatesStatusAndList ==
  [][ ( /\ queries.inflight # None /\ Val(queries.inflight).kind = "mutation"
        /\ queries'.inflight = None
        /\ http.status = StatusOk ) =>
          \A k \in { StatusKey(Val(queries.inflight).key),
                     ListKey(Val(queries.inflight).key) } :
            queries'.cache[k].state # "fresh" ]_vars

\* The item a sync call is working on.
ItemOf(c) == Results(c)[c.i]

\* The row holds what the external source reports at revision rev.
HoldsDataOf(m, rev) ==
  \A f \in {"voteAverage", "popularity", "runtime", "genres", "title"} :
    m[f] = InsertMovieOf(TmdbDetailsAt(m.tmdbId, rev))[f]

\* C21 as stated: a movie row is created by the first sync that sees its
\* external id, is refreshed from the external source by every later sync that
\* sees the same id, and is never deleted.
C21_LaterSyncRefreshes ==
  [][ /\ \A p \in Procs :
           ( /\ sync[p].pc = "create" /\ sync'[p] # sync[p]
             /\ \A m \in movies : m.tmdbId # ItemOf(sync[p]) ) =>
               \E m \in movies' : m.tmdbId = ItemOf(sync[p])
      /\ \A p \in Procs :
           ( /\ sync[p].pc = "check" /\ sync'[p] # sync[p]
             /\ \E m \in movies : m.tmdbId = ItemOf(sync[p]) ) =>
               \E m \in movies' :
                 m.tmdbId = ItemOf(sync[p]) /\ HoldsDataOf(m, tmdbRev)
      /\ \A m \in movies : \E n \in movies' : n.id = m.id ]_vars

\* C21 amended: a movie row is created by the first sync that sees its
\* external id, with the data the external source reported to that sync; no
\* later step changes a field of the row or deletes it, and no second row is
\* made for its external id.
C21_CreatedOnceNeverChanged ==
  [][ /\ \A p \in Procs :
           ( /\ sync[p].pc = "create" /\ sync'[p] # sync[p]
             /\ \A m \in movies : m.tmdbId # ItemOf(sync[p]) ) =>
               \E m \in movies' \ movies :
                 m.tmdbId = ItemOf(sync[p]) /\ HoldsDataOf(m, sync[p].detailsRev)
      /\ movies \subseteq movies'
      /\ \A m \in movies' \ movies : \A old \in movies : old.tmdbId # m.tmdbId
    ]_vars

\* C21 witness: one sync call has both created a row and answered with a row
\* of an earlier call whose data the external source has changed since.
C21_CreatedBesideOutdatedRow ==
  \E p \in Procs :
    /\ sync[p].pc = "done" /\ sync[p].status = StatusOk /\ sync[p].inserted > 0
    /\ \E k \in DOMAIN sync[p].synced :
         /\ sync[p].synced[k] \in movies
         /\ ~HoldsDataOf(sync[p].synced[k], tmdbRev)
         /\ sync[p].synced[k].id <= movieSeq - sync[p].inserted

\* C22: a successful sync call answers with exactly one local row per item of
\* the fetched listing, in listing order (the row that was there when the item
\* was checked, the newly inserted row otherwise), and with the total the
\* external API reported for the listing, which is neither the number of rows
\* returned nor the number of rows stored.
C22_OneRowPerListingItem ==
  /\ [](\A p \in Procs :
          LET c == sync[p]
              l == Listing(c.cat)
              body == SyncResponse(c)
          IN (c.pc = "done" /\ c.status = StatusOk) =>
               /\ Len(body.syncedMovies) = Len(l)
               /\ \A i \in DOMAIN l :
                    /\ body.syncedMovies[i] \in movies
                    /\ body.syncedMovies[i].tmdbId = l[i]
               /\ body.total = Len(l) + MaxTmdb
               /\ body.total # Len(body.syncedMovies)
               /\ body.total # Cardinality(movies))
  /\ [][ \A p \in Procs :
           Len(sync'[p].synced) = Len(sync[p].synced) + 1 =>
             LET row == sync'[p].synced[Len(sync'[p].synced)]
                 before == {m \in movies : m.tmdbId = ItemOf(sync[p])}
             IN /\ row.tmdbId = ItemOf(sync[p])
                /\ IF before # {} THEN row \in before
                                  ELSE row \in movies' \ movies ]_vars

\* C22 witness: a successful sync call has answered with a row that was there
\* before it and a row it inserted.
C22_FoundAndInsertedAnswered ==
  \E p \in Procs :
    LET c == sync[p]
    IN /\ c.pc = "done" /\ c.status = StatusOk
       /\ c.inserted > 0 /\ c.inserted < Len(c.synced)
       /\ SyncResponse(c).total > Len(c.synced)

\* The page of its listing a sync call asked the external API for.
RequestedPage(c) ==
  IF c.cat = "popular"
    THEN LET first == (c.page - 1) * ListLen
         IN [i \in 1..Min(ListLen, MaxTmdb - first) |-> MaxTmdb + 1 - (first + i)]
    ELSE Listing(c.cat)

\* C23 as stated: when a sync call has completed successfully, every item on
\* every page of its listing is in the catalog.
C23_EveryPageSynced ==
  \A p \in Procs :
    LET c == sync[p]
    IN (c.pc = "done" /\ c.status = StatusOk /\ c.cat = "popular") =>
         \A page \in 1..PopularPages : \A t \in Range(PopularPage(page)) :
           \E m \in movies : m.tmdbId = t

\* C23 amended: a sync call fetches one page of its listing (the page its body
\* names for the popular listing, page 1 otherwise); when it completes
\* successfully every item of that page has been checked and is in the
\* catalog, and the call has checked and inserted no item of another page.
C23_OnePageSynced ==
  /\ [](\A p \in Procs :
          LET c == sync[p]
              l == RequestedPage(c)
          IN /\ c.pc \in {"check", "details", "create"} => c.i \in DOMAIN l
             /\ (c.pc = "done" /\ c.status = StatusOk) =>
                  /\ Len(c.synced) = Len(l)
                  /\ \A i \in DOMAIN l :
                       c.synced[i].tmdbId = l[i] /\ c.synced[i] \in movies)
  /\ [][ \A m \in movies' \ movies :
           \E p \in Procs :
             sync[p].pc = "create" /\ m.tmdbId \in Range(RequestedPage(sync[p]))
       ]_vars

\* C23 witness: a sync of page 1 of the popular listing has completed
\* successfully while an item of a later page is not in the catalog.
C23_LaterPageNotSynced ==
  \E p \in Procs :
    /\ sync[p].pc = "done" /\ sync[p].status = StatusOk
    /\ sync[p].cat = "popular" /\ sync[p].page = 1
    /\ \E page \in 2..PopularPages : \E t \in Range(PopularPage(page)) :
         \A m \in movies : m.tmdbId # t

\* The rows of the ordered, filtered result after the first skip ones, up to
\* size of them, for each ordering the ORDER BY may produce.
RowsAfter(tbl, f, skip, size) ==
  { SubSeq(s, skip + 1, Min(skip + size, Len(s))) :
      s \in Orderings(Matching(tbl, f), SortBy(f), SortOrder(f)) }

\* The page query of a call with page p >= 1 and page size s >= 1 has run.
PagedCall ==
  /\ gm.pageDone /\ ~WhereFails(gm.filters)
  /\ Get(gm.filters, "page") >= 1 /\ Get(gm.filters, "limit") >= 1

\* C24 as stated: the page query for page p and page size s skips p * s rows of
\* the ordered, filtered result and returns up to s rows.
C24_SkipsPageTimesSize ==
  PagedCall =>
    gm.movies \in RowsAfter(gm.pageSnap, gm.filters,
                            Get(gm.filters, "page") * Get(gm.filters, "limit"),
                            Get(gm.filters, "limit"))

\* C24 amended: the page query for page p and page size s skips (p - 1) * s rows
\* of the ordered, filtered result and returns up to s rows.
C24_SkipsEarlierPages ==
  PagedCall =>
    gm.movies \in RowsAfter(gm.pageSnap, gm.filters,
                            (Get(gm.filters, "page") - 1) * Get(gm.filters, "limit"),
                            Get(gm.filters, "limit"))

\* C24 witness: the page query for page 2 of size 1 has returned the second
\* row of a result of three rows.
C24_SecondPageReturned ==
  /\ PagedCall
  /\ gm.filters.page = Some(2) /\ gm.filters.limit = Some(1)
  /\ Cardinality(Matching(gm.pageSnap, gm.filters)) = 3
  /\ Len(gm.movies) = 1

\* The movies a genres filter keeps, with the other conditions of the call.
KeptByGenres(tbl, f) ==
  { m \in tbl :
      /\ Get(f, "genres") # {} => m.genres \cap Get(f, "genres") # {}
      /\ \A c \in Conditions(f) : c.kind # "genres" => Satisfies(m, c) }

\* C25: with a genres filter, getMovies returns exactly the movies that have
\* one of the requested genre ids among their genres (and meet the other
\* conditions): a movie with no genres is never returned under a non-empty
\* genres list, and an empty genres list filters nothing.
C25_GenreSetMembership ==
  LET f == gm.filters
  IN ( /\ gm.pc = "done" /\ Has(f, "genres")
       /\ \A c \in Conditions(f) : c.kind = "genres" \/ ~UsesUndefinedFunction(c)
       /\ f.page = Some(DefaultPage) /\ f.limit = Some(DefaultLimit) ) =>
         /\ ~gm.failed
         /\ Range(gm.movies) = KeptByGenres(gm.pageSnap, f)
         /\ gm.total = Cardinality(KeptByGenres(gm.countSnap, f))

\* The numeric range the claim gives a runtime bucket.
InBucket(m, bucket) ==
  CASE bucket = "under90" -> m.runtime # None /\ Val(m.runtime) < 90
    [] bucket = "90to120" ->
         m.runtime # None /\ 90 <= Val(m.runtime) /\ Val(m.runtime) <= 120
    [] bucket = "over120" -> m.runtime # None /\ Val(m.runtime) > 120
    [] OTHER -> TRUE

\* The buckets of the runtime enum under which getMovies returns the movie.
BucketsOf(m) ==
  { b \in RuntimeBuckets \ {"any"} :
      m \in Matching(movies, [NoFields EXCEPT !.runtime = Some(b)]) }

\* C26: getMovies with a runtime bucket returns exactly the movies in the
\* bucket's range (under90: runtime < 90; 90to120: 90 <= runtime <= 120;
\* over120: runtime > 120; any or absent: all); a movie with a known runtime
\* is returned under exactly one of the three buckets and a movie with no
\* runtime under none of them, only under any.
C26_RuntimeBucketRanges ==
  /\ gm.pc = "done" =>
       LET bucket == IF Has(gm.filters, "runtime") THEN Get(gm.filters, "runtime")
                     ELSE "any"
           kept == {m \in gm.pageSnap : InBucket(m, bucket)}
       IN /\ ~gm.failed
          /\ Range(gm.movies) = kept
          /\ gm.total = Cardinality(kept)
  /\ \A m \in movies :
       /\ m.runtime # None => Cardinality(BucketsOf(m)) = 1
       /\ m.runtime = None => BucketsOf(m) = {}
       /\ m \in Matching(movies, [NoFields EXCEPT !.runtime = Some("any")])
       /\ m \in Matching(movies, NoFields)

\* C26 witness: a call with the bucket 90to120 has returned a movie of runtime
\* 120 and left out a movie with no runtime.
C26_BoundaryMovieReturned ==
  /\ gm.pc = "done" /\ gm.filters.runtime = Some("90to120")
  /\ \E i \in DOMAIN gm.movies : gm.movies[i].runtime = Some(UpTo120)
  /\ \E m \in movies : m.runtime = None /\ m \notin Range(gm.movies)

\* C27: after Load More the filter's page number stays at the incremented
\* value until the user changes a filter or a sort option: a step changes the
\* page number only when it is the Load More step (page + 1) or changes
\* another field of the filter with it.
C27_PageKeptUntilUserAction ==
  [][ home'.filters.page # home.filters.page =>
        \/ home'.filters = handleLoadMore(home.filters)
        \/ \E k \in DOMAIN home.filters \ {"page"} :
             home'.filters[k] # home.filters[k] ]_vars

\* The number of movies a user gets by listing every page (of one movie each)
\* of a list.
ListedOnAllPages(tbl, u) ==
  Cardinality({ pg \in 1..Cardinality(tbl) :
                  Len(getUserWatchlist(tbl, movies, u, pg, 1).movies) = 1 })

\* C28: for every user the total getUserWatchlist (getUserFavorites) reports
\* equals the number of movies listed on all of the user's pages, and every
\* watchlist and favorites row refers to a movie id of the catalog.
C28_TotalCountsListedMovies ==
  /\ \A u \in Users :
       /\ getUserWatchlist(watchlist, movies, u, DefaultPage, DefaultLimit).total
            = ListedOnAllPages(watchlist, u)
       /\ getUserFavorites(favorites, movies, u, DefaultPage, DefaultLimit).total
            = ListedOnAllPages(favorites, u)
  /\ \A r \in watchlist \cup favorites : \E m \in movies : m.id = r.movieId

NumericFields ==
  {"ratingMin", "ratingMax", "releaseYearFrom", "releaseYearTo", "page", "limit"}

\* The filter with every numeric field that is 0 taken out (page and limit
\* then get the defaults 1 and 20 of an absent field).
WithoutZeros(f) ==
  [k \in DOMAIN f |->
     IF k \in NumericFields /\ f[k] = Some(0)
       THEN (CASE k = "page" -> Some(1) [] k = "limit" -> Some(20) [] OTHER -> None)
       ELSE f[k]]

\* C29: getMovies treats a numeric field that is 0 like an absent field: the
\* call ends as the call without the zero fields does (ratingMin, ratingMax,
\* releaseYearFrom, releaseYearTo = 0 add no condition; page = 0 is page 1;
\* limit = 0 is limit 20); with ratingMax = 0 as the only bound every movie is
\* counted.
C29_ZeroIsAbsent ==
  LET f == gm.filters
      g == WithoutZeros(f)
  IN (gm.pc = "done" /\ g # f) =>
       /\ gm.failed = PageQueryFails(g)
       /\ ~gm.failed =>
            /\ gm.movies \in PageQuery(gm.pageSnap, g)
            /\ gm.total = CountQuery(gm.countSnap, g)
       /\ ( /\ f.ratingMax = Some(0)
            /\ \A k \in {"ratingMin", "releaseYearFrom", "releaseYearTo"} :
                 f[k] \in {None, Some(0)} ) =>
              ~gm.failed /\ gm.total = Cardinality(gm.countSnap)

\* C29 witness: a call with ratingMax = 0, page = 0 and limit = 0 has returned
\* every movie of a catalog of more than one movie.
C29_ZeroBoundsReturnAll ==
  /\ gm.pc = "done" /\ ~gm.failed
  /\ gm.filters.ratingMax = Some(0) /\ gm.filters.releaseYearTo = Some(0)
  /\ gm.filters.page = Some(0) /\ gm.filters.limit = Some(0)
  /\ Cardinality(gm.pageSnap) > 1
  /\ Range(gm.movies) = gm.pageSnap

\* C30: every sortBy/sortOrder pair the sort selector puts into the filter is
\* a value the movie filter schema accepts, and GET /api/movies never answers
\* a request of the Home page with the failure of a rejected filter.
C30_OfferedSortsAccepted ==
  /\ home.filters.sortBy \subseteq {"popularity", "rating", "release_date", "title"}
  /\ home.filters.sortOrder \subseteq {"asc", "desc"}
  /\ http.route = "GET /api/movies" => http.failure # "validation"
====
